---------------------------- MODULE Spec2Model ----------------------------
(***************************************************************************)
(* NovaChatServer: the TLS session engine (Session.cpp), the listener and  *)
(* the server orchestrator (Listener.cpp, which also holds Server.cpp),    *)
(* the database connection pool (DatabaseManager.cpp) and the token        *)
(* lifecycle of the auth handlers (UserHandlers.cpp, JWTManager.cpp).      *)
(*                                                                         *)
(* Each subsystem has its own specification over the shared variables:     *)
(*   SpecSession  sessions driven by their peers, with a clock             *)
(*   SpecServer   start/stop of the server with sessions being accepted    *)
(*   SpecPool     threads acquiring and releasing pooled connections       *)
(*   SpecAuth     login / refresh / logout / authenticated calls           *)
(*   SpecJwt      clients of the JWTManager: tokens minted and revoked     *)
(*   SpecRegister two workers serving register requests                    *)
(*   SpecDispatch one worker serving requests for any target               *)
(*   SpecMessages users sending and marking messages, deleting accounts    *)
(*   SpecSend     send and list requests with every kind of text and limit *)
(*   SpecValidate send and mark-as-read requests with every kind of body   *)
(*   SpecRefresh  refresh calls of two clients served concurrently         *)
(*   SpecLogin    logins for the configured access token lifetimes         *)
(*   SpecRouter   lookups in a router with any handlers registered         *)
(*   SpecStop     the server with two threads calling stop                 *)
(*   SpecAccept   the accept loop: completions and their handler, stop     *)
(*   SpecMutex    the critical sections of two workers serving requests    *)
(***************************************************************************)
EXTENDS Integers, FiniteSets, Sequences, TLC

VARIABLES
    now,        \* the clock, in seconds (steady_clock / system_clock)
    sess,       \* session id -> the Session object's state
    created,    \* the session ids for which a Session object was constructed
    srv,        \* the Server / Listener / io_context state
    pool,       \* the DatabaseManager: connectionPool_ and borrowedConnections_
    thr,        \* thread id -> where the thread is in its use of the pool
    auth,       \* the JWTManager's revocation map, the store's tables, the clients
    hnd,        \* the request handlers: the process, the users table, the worker threads
    msg,        \* the message handlers: the users and messages tables, the last answer
    call,       \* the last call of a utility function: its name, arguments and result
    mtx         \* the three mutexes, and where each worker is in its critical sections

sessVars == <<sess, created>>
srvVars == <<srv>>
poolVars == <<pool, thr>>
authVars == <<auth>>
hndVars == <<hnd>>
msgVars == <<msg>>
callVars == <<call, mtx>>
vars == <<now, sess, created, srv, pool, thr, auth, hnd, msg, call, mtx>>

-----------------------------------------------------------------------------
(* Bounds of the model *)

\* the clock stops advancing here
MaxTime == 37

\* the pool's clock stops advancing here
MaxPoolTime == 5

\* database.max_connections and database.connection_timeout of the configuration
MaxConnections == 2
ConnectionTimeout == 2

\* the threads that use the pool
Threads == {"t1", "t2", "t3"}

\* the clock of the token lifecycle stops advancing here
MaxAuthTime == 2

\* lifetimes of access and refresh tokens (jwt.access_token_expiry_minutes and
\* jwt.refresh_token_expiry_days of the configuration), in ticks of the clock
AccessTokenExpiry == 1
RefreshTokenExpiry == 2

\* the token pairs handed to clients in one run
MaxTokens == 2

\* the registered users
Users == {"u1"}

\* the clients (devices) that log in
Clients == {"c1", "c2"}

\* the sessions of the model (Session objects share no state, so one session
\* shows what any of them does)
SessionIds == {"s1"}

-----------------------------------------------------------------------------
(* Program constants *)

TIMEOUT_READ_WRITE == 30
TIMEOUT_HANDSHAKE == 30
TIMEOUT_SHUTDOWN == 5
GRACEFUL_SHUTDOWN_TIMEOUT == 30
SHUTDOWN_CHECK_INTERVAL == 1

\* deadline_.expires_at(time_point::max()): a deadline that never expires
Never == -1

-----------------------------------------------------------------------------
(* Session (Session.cpp) *)

\* what a completion handler is called with
EcSuccess == "success"
EcAborted == "operation_aborted"
EcEndOfStream == "end_of_stream"
EcOther == "error"
ErrorCodes == {EcAborted, EcEndOfStream, EcOther}

NoRequest == [version |-> 0, keepAlive |-> FALSE, routed |-> FALSE]

\* a request read from the socket: its HTTP version, request.keep_alive(),
\* and whether Router::findHandler finds a handler for its target
Requests == [version : {10, 11}, keepAlive : BOOLEAN, routed : BOOLEAN]

NoEvent == [op |-> "none", ec |-> "none"]

\* the state a Session has after its constructor
NewSession ==
    [ phase      |-> "Accepted",
      ops        |-> {},          \* outstanding asynchronous operations on stream_
      isRunning  |-> FALSE,       \* isRunning_
      deadline   |-> Never,       \* deadline_.expiry()
      timerWait  |-> "none",      \* the async_wait on deadline_: none, pending, aborted
      socketOpen |-> TRUE,        \* stream_.next_layer() is open
      request    |-> NoRequest,   \* request_
      needEof    |-> FALSE,       \* response_->need_eof()
      fields     |-> {},          \* the header fields of response_
      shutdown   |-> "none",      \* async_shutdown: none, started, done
      lastEvent  |-> NoEvent ]    \* the last completion delivered: operation and error code

Expired(r) == r.deadline # Never /\ r.deadline <= now

\* deadline_.expires_after(d): sets the expiry and cancels a pending wait, whose
\* handler is then called with operation_aborted
ExpiresAfter(r, d) ==
    [r EXCEPT !.deadline = now + d,
              !.timerWait = IF @ = "pending" THEN "aborted" ELSE @]

\* deadline_.cancel()
CancelTimer(r) ==
    [r EXCEPT !.timerWait = IF @ = "pending" THEN "aborted" ELSE @]

\* A handler returned without starting another operation: when no handler is
\* left that holds the shared_ptr, the Session is destroyed and the destructor
\* of stream_ closes the socket (no TLS shutdown).
Release(r) ==
    IF r.ops = {} /\ r.timerWait = "none"
    THEN [r EXCEPT !.socketOpen = FALSE, !.phase = "Closed"]
    ELSE IF r.ops = {} THEN [r EXCEPT !.phase = "Closed"] ELSE r

DoClose(r) ==
    IF ~r.isRunning
    THEN Release(r)
    ELSE LET t == ExpiresAfter([r EXCEPT !.isRunning = FALSE], TIMEOUT_SHUTDOWN)
         IN  [t EXCEPT !.ops = @ \cup {"shutdown"},
                       !.shutdown = "started",
                       !.phase = "Closing"]

CheckDeadline(r) ==
    IF ~r.isRunning
    THEN Release(r)
    ELSE IF Expired(r)
         THEN DoClose(r)
         ELSE [r EXCEPT !.timerWait = "pending"]

\* Session::start
StartSession(r) ==
    IF r.isRunning
    THEN r
    ELSE LET c == CheckDeadline([r EXCEPT !.isRunning = TRUE])
             t == ExpiresAfter(c, TIMEOUT_HANDSHAKE)
         IN  [t EXCEPT !.ops = @ \cup {"handshake"},
                       !.phase = "HandshakeInProgress"]

DoRead(r) ==
    LET t == ExpiresAfter([r EXCEPT !.request = NoRequest], TIMEOUT_READ_WRITE)
    IN  [t EXCEPT !.ops = @ \cup {"read"}, !.phase = "Reading"]

DoWrite(r) ==
    LET t == ExpiresAfter(r, TIMEOUT_READ_WRITE)
    IN  [t EXCEPT !.ops = @ \cup {"write"}, !.phase = "Writing"]

\* Session::onHandshake
OnHandshake(r, ec) ==
    LET d == [r EXCEPT !.ops = @ \ {"handshake"},
                       !.lastEvent = [op |-> "handshake", ec |-> ec]]
    IN  IF ec # EcSuccess THEN Release(d) ELSE DoRead(d)

\* OnRead with the error branch returning without doClose
OnReadNoClose(r, ec, req) ==
    LET d == [r EXCEPT !.ops = @ \ {"read"},
                       !.lastEvent = [op |-> "read", ec |-> ec]]
    IN  IF ec # EcSuccess
        THEN Release(d)
        ELSE [d EXCEPT !.request = req, !.phase = "Dispatching"]

\* Session::onRead up to the call of the handler
OnRead(r, ec, req) ==
    LET d == [r EXCEPT !.ops = @ \ {"read"},
                       !.lastEvent = [op |-> "read", ec |-> ec]]
    IN  IF ec # EcSuccess
        THEN DoClose(d)
        ELSE [d EXCEPT !.request = req, !.phase = "Dispatching"]

\* need_eof() of the response built for a request:
\*  "handler"  IHandler::createJsonResponse: version 11, keep-alive never cleared
\*  "notfound" Router::handleNotFound: response.keep_alive(request.keep_alive())
\*  "error"    the 500 of Session::onRead: request_.version(), no Connection field
NeedEof(kind, req) ==
    CASE kind = "handler"  -> FALSE
      [] kind = "notfound" -> ~req.keepAlive
      [] kind = "error"    -> req.version = 10

\* IHandler::setCorsHeaders
SetCorsHeaders ==
    {"Access-Control-Allow-Origin: *",
     "Access-Control-Allow-Methods: GET, POST, PUT, DELETE, OPTIONS",
     "Access-Control-Allow-Headers: Content-Type, Authorization"}

\* the header fields of the response built for a request (Content-Length left out):
\*  "handler"  IHandler::createJsonResponse
\*  "notfound" Router::handleNotFound
\*  "error"    the 500 of Session::onRead
ResponseFields(kind) ==
    CASE kind = "handler"  ->
            {"Content-Type: application/json", "Cache-Control: no-cache"} \cup SetCorsHeaders
      [] kind = "notfound" ->
            {"Server", "Content-Type: application/json", "Access-Control-Allow-Origin: *"}
      [] kind = "error"    ->
            {"Content-Type: application/json", "Access-Control-Allow-Origin: *"}

\* OnDispatch starting the next read together with the write
OnDispatchPipelined(r, threw) ==
    LET kind == IF threw THEN "error"
                ELSE IF r.request.routed THEN "handler" ELSE "notfound"
        d == [r EXCEPT !.needEof = NeedEof(kind, r.request),
                       !.fields = ResponseFields(kind),
                       !.lastEvent = [op |-> "dispatch",
                                      ec |-> IF threw THEN EcOther ELSE EcSuccess]]
    IN  DoRead(DoWrite(d))

\* Session::onRead from the call of the handler on; threw = an exception
\* reached the catch of onRead
OnDispatch(r, threw) ==
    LET kind == IF threw THEN "error"
                ELSE IF r.request.routed THEN "handler" ELSE "notfound"
        d == [r EXCEPT !.needEof = NeedEof(kind, r.request),
                       !.fields = ResponseFields(kind),
                       !.lastEvent = [op |-> "dispatch",
                                      ec |-> IF threw THEN EcOther ELSE EcSuccess]]
    IN  DoWrite(d)

\* Session::onWrite
OnWrite(r, ec) ==
    LET d == [r EXCEPT !.ops = @ \ {"write"},
                       !.lastEvent = [op |-> "write", ec |-> ec]]
    IN  IF ec # EcSuccess
        THEN Release(d)
        ELSE IF d.needEof THEN DoClose(d) ELSE DoRead(d)

\* the completion handler of async_shutdown in Session::doClose
OnShutdown(r, ec) ==
    LET d == [r EXCEPT !.ops = @ \ {"shutdown"},
                       !.lastEvent = [op |-> "shutdown", ec |-> ec],
                       !.shutdown = "done",
                       !.socketOpen = FALSE,
                       !.phase = "Closed"]
    IN  Release(CancelTimer(d))

\* the completion handler of deadline_.async_wait in Session::checkDeadline
OnTimer(r) ==
    IF r.timerWait = "aborted"
    THEN Release([r EXCEPT !.timerWait = "none"])
    ELSE CheckDeadline([r EXCEPT !.timerWait = "none"])

\* the timer's wait completes: cancelled, or its expiry reached
TimerReady(r) ==
    \/ r.timerWait = "aborted"
    \/ r.timerWait = "pending" /\ Expired(r)

-----------------------------------------------------------------------------
(* Listener and Server (Listener.cpp) *)

\* the state a Server has after its constructor
NewServer ==
    [ pc            |-> "constructed", \* where the thread calling start/stop is
      isRunning     |-> FALSE,         \* Server::isRunning_
      workGuard     |-> TRUE,          \* work_ holds the io_context
      iocStopped    |-> FALSE,         \* ioc_->stopped()
      threads       |-> FALSE,         \* threads_ are in ioc_->run()
      listening     |-> FALSE,         \* Listener::isRunning_
      acceptorOpen  |-> FALSE,         \* acceptor_ is open
      acceptPending |-> FALSE,         \* an async_accept is outstanding
      accepted      |-> "none",        \* completion of it whose onAccept has not run
      stopStart     |-> Never,         \* startTime of waitForGracefulShutdown
      graceful      |-> FALSE,         \* what waitForGracefulShutdown returned
      stopReturned  |-> FALSE,         \* Server::stop has returned
      other         |-> "idle",        \* where a second thread calling stop is
      shutdowns     |-> 0 ]            \* calls of gracefulShutdown so far

\* Listener::start followed by Listener::doAccept
ListenerStart(v) ==
    IF v.listening
    THEN v
    ELSE [v EXCEPT !.acceptorOpen = TRUE, !.listening = TRUE, !.acceptPending = TRUE]

\* Listener::stop: closes the acceptor, nothing else
ListenerStop(v) ==
    IF ~v.listening
    THEN v
    ELSE [v EXCEPT !.listening = FALSE, !.acceptorOpen = FALSE]

\* Server::start
ServerStart(v) ==
    IF v.isRunning
    THEN v
    ELSE [ListenerStart(v) EXCEPT !.threads = TRUE, !.isRunning = TRUE, !.pc = "running"]

\* the loop of Server::waitForGracefulShutdown: elapsed seconds since startTime,
\* stopped = ioc_->stopped(); yields the result and the time spent
RECURSIVE WaitLoop(_, _)
WaitLoop(elapsed, stopped) ==
    IF elapsed < GRACEFUL_SHUTDOWN_TIMEOUT
    THEN IF stopped
         THEN [graceful |-> TRUE, elapsed |-> elapsed]
         ELSE WaitLoop(elapsed + SHUTDOWN_CHECK_INTERVAL, stopped)
    ELSE [graceful |-> FALSE, elapsed |-> elapsed]

\* the handlers of the io_context have all run and no operation is outstanding
Drained ==
    /\ ~srv.acceptPending
    /\ \A s \in created : sess[s].ops = {} /\ sess[s].timerWait = "none"

\* The threads of threads_ run handlers while the io_context is not stopped
ExecutorRuns == srv.threads /\ ~srv.iocStopped

\* ioc_->run() returns: the io_context is stopped, or it ran out of work
RunReturns == srv.iocStopped \/ (~srv.workGuard /\ Drained)

\* Server::start, called on a constructed server
StartServer ==
    /\ srv.pc = "constructed"
    /\ \E bound \in BOOLEAN :
          srv' = IF bound THEN ServerStart(srv) ELSE [srv EXCEPT !.pc = "failed"]
    /\ UNCHANGED <<now, sess, created>>
    /\ UNCHANGED <<poolVars, authVars, hndVars, msgVars, callVars>>

\* Listener::onAccept for a new connection: constructs the Session, calls
\* Session::start and accepts the next connection
Accept(s) ==
    /\ ExecutorRuns
    /\ srv.acceptPending /\ srv.acceptorOpen
    /\ s \notin created
    /\ created' = created \cup {s}
    /\ sess' = [sess EXCEPT ![s] = StartSession(NewSession)]
    /\ srv' = [srv EXCEPT !.acceptPending = srv.listening]
    /\ UNCHANGED now
    /\ UNCHANGED <<poolVars, authVars, hndVars, msgVars, callVars>>

\* Listener::onAccept called with operation_aborted after the acceptor closed
AcceptAborted ==
    /\ ExecutorRuns
    /\ srv.acceptPending /\ ~srv.acceptorOpen
    /\ srv' = [srv EXCEPT !.acceptPending = FALSE]
    /\ UNCHANGED <<now, sess, created>>
    /\ UNCHANGED <<poolVars, authVars, hndVars, msgVars, callVars>>

\* the results async_accept completes with on an open acceptor: a connection,
\* or an error of accept(2) such as EMFILE, ENFILE, ENOBUFS or ENOMEM
AcceptResults == {"ok", "error"}

\* the outstanding async_accept completes: its result is queued with the
\* completion handler, which a thread of the io_context runs later
AcceptComplete ==
    /\ srv.acceptPending /\ srv.acceptorOpen
    /\ \E ec \in AcceptResults :
          srv' = [srv EXCEPT !.acceptPending = FALSE, !.accepted = ec]
    /\ UNCHANGED <<now, sess, created>>
    /\ UNCHANGED <<poolVars, authVars, hndVars, msgVars, callVars>>

\* Listener::onAccept run for a queued completion: with an error it returns;
\* with a connection it constructs the Session and calls Session::start, which
\* may throw, and then calls doAccept if isRunning_
OnAccept(s) ==
    /\ ExecutorRuns
    /\ srv.accepted # "none"
    /\ s \notin created
    /\ IF srv.accepted = "error"
       THEN /\ srv' = [srv EXCEPT !.accepted = "none"]
            /\ UNCHANGED <<sess, created>>
       ELSE /\ srv' = [srv EXCEPT !.accepted = "none", !.acceptPending = srv.listening]
            /\ \E thrown \in BOOLEAN :
                  IF thrown
                  THEN UNCHANGED <<sess, created>>
                  ELSE /\ created' = created \cup {s}
                       /\ sess' = [sess EXCEPT ![s] = StartSession(NewSession)]
    /\ UNCHANGED now
    /\ UNCHANGED <<poolVars, authVars, hndVars, msgVars, callVars>>

\* Server::stop on a server that is not running: returns at once
StopNotRunning ==
    /\ srv.pc \in {"constructed", "failed", "running"}
    /\ ~srv.isRunning
    /\ srv' = [srv EXCEPT !.pc = "stopped", !.stopReturned = TRUE]
    /\ UNCHANGED <<now, sess, created>>
    /\ UNCHANGED <<poolVars, authVars, hndVars, msgVars, callVars>>

\* Server::stop on a running server, up to listener_->stop() in gracefulShutdown
StopListener ==
    /\ srv.pc = "running"
    /\ srv.isRunning
    /\ srv' = [ListenerStop(srv) EXCEPT !.pc = "wait", !.shutdowns = @ + 1]
    /\ UNCHANGED <<now, sess, created>>
    /\ UNCHANGED <<poolVars, authVars, hndVars, msgVars, callVars>>

\* Server::waitForGracefulShutdown: takes startTime, calls ioc_->stop() and
\* then polls ioc_->stopped()
WaitForGracefulShutdown ==
    /\ srv.pc = "wait"
    /\ LET w == WaitLoop(0, TRUE)
       IN  /\ srv' = [srv EXCEPT !.stopStart = now,
                                 !.iocStopped = TRUE,
                                 !.graceful = w.graceful,
                                 !.pc = "reset"]
           /\ now' = now + w.elapsed
    /\ UNCHANGED <<sess, created>>
    /\ UNCHANGED <<poolVars, authVars, hndVars, msgVars, callVars>>

\* work_.reset()
ResetWork ==
    /\ srv.pc = "reset"
    /\ srv' = [srv EXCEPT !.workGuard = FALSE, !.pc = "stopIoc"]
    /\ UNCHANGED <<now, sess, created>>
    /\ UNCHANGED <<poolVars, authVars, hndVars, msgVars, callVars>>

\* if (!ioc_->stopped()) ioc_->stop()
StopIoc ==
    /\ srv.pc = "stopIoc"
    /\ srv' = [srv EXCEPT !.iocStopped = TRUE, !.pc = "join"]
    /\ UNCHANGED <<now, sess, created>>
    /\ UNCHANGED <<poolVars, authVars, hndVars, msgVars, callVars>>

\* the threads are joined, isRunning_ = false, and Server::stop returns
Join ==
    /\ srv.pc = "join"
    /\ RunReturns
    /\ srv' = [srv EXCEPT !.threads = FALSE, !.isRunning = FALSE,
                          !.pc = "stopped", !.stopReturned = TRUE]
    /\ UNCHANGED <<now, sess, created>>
    /\ UNCHANGED <<poolVars, authVars, hndVars, msgVars, callVars>>

\* Server::stop called by a second thread: the test of isRunning_, and on a
\* running server gracefulShutdown up to listener_->stop()
OtherStop ==
    /\ srv.other = "idle"
    /\ srv' = IF ~srv.isRunning
              THEN [srv EXCEPT !.other = "returned"]
              ELSE [ListenerStop(srv) EXCEPT !.other = "shutdown", !.shutdowns = @ + 1]
    /\ UNCHANGED <<now, sess, created>>
    /\ UNCHANGED <<poolVars, authVars, hndVars, msgVars, callVars>>

\* the rest of gracefulShutdown in the second thread: ioc_->stop(), work_.reset(),
\* the joins and isRunning_ = false. When the first thread is in gracefulShutdown
\* too, both use threads_ and its std::thread objects without synchronization:
\* the call returns or the process ends
OtherShutdown ==
    /\ srv.other = "shutdown"
    /\ \E outcome \in IF srv.pc \in {"wait", "reset", "stopIoc", "join", "stopped"}
                      THEN {"returned", "terminated"} ELSE {"returned"} :
         srv' = [srv EXCEPT !.iocStopped = TRUE, !.workGuard = FALSE, !.threads = FALSE,
                            !.isRunning = FALSE, !.other = outcome]
    /\ UNCHANGED <<now, sess, created>>
    /\ UNCHANGED <<poolVars, authVars, hndVars, msgVars, callVars>>

-----------------------------------------------------------------------------
(* DatabaseManager (DatabaseManager.cpp) *)

\* the pool after the constructor: maxConnections_ connections in the queue
\* the pqxx::connection objects that can be alive at one time: the pool's, and
\* one more per thread that is opening a connection
Connections == 1..(MaxConnections + Cardinality(Threads))

NoConnection == 0

\* connectionPool = connectionPool_.size(), queue = the connections in
\* connectionPool_, its front first
NewPool ==
    [connectionPool |-> MaxConnections, borrowedConnections |-> 0,
     queue |-> [i \in 1..MaxConnections |-> i]]

NewThread ==
    [pc |-> "idle", deadline |-> Never, notified |-> FALSE, got |-> "none", conn |-> NoConnection]

\* std::make_unique<pqxx::connection>: an object that is none of those alive
MakeConnection(p, th) ==
    LET alive == {p.queue[i] : i \in DOMAIN p.queue} \cup {th[u].conn : u \in Threads}
    IN  CHOOSE c \in Connections \ alive : \A d \in Connections \ alive : c <= d

\* a wait on poolCondition_ that has no timeout
WaitForever(empty, expired) ==
    IF ~empty THEN "ready" ELSE "wait"

\* poolCondition_.wait_for(lock, timeout, pred) when the thread holds the lock:
\* returns true when the pool is not empty, false when it is empty and the
\* timeout has expired, and goes on waiting otherwise
WaitFor(empty, expired) ==
    IF ~empty THEN "ready"
    ELSE IF expired THEN "timeout" ELSE "wait"

\* an acquire that leaves the front of the queue where it is
TakeConnectionNoPop(p) ==
    [p EXCEPT !.borrowedConnections = @ + 1]

\* DatabaseManager::acquireConnection after wait_for returned true
TakeConnection(p) ==
    IF p.connectionPool = 0
    THEN [p EXCEPT !.borrowedConnections = @ + 1]
    ELSE [p EXCEPT !.connectionPool = @ - 1, !.borrowedConnections = @ + 1,
                   !.queue = Tail(@)]

Taken(p) == IF p.connectionPool = 0 THEN "new" ELSE "pooled"

\* the connection acquireConnection returns: std::move(connectionPool_.front()),
\* or a new one when the pool is empty
TakenConnection(p, th) ==
    IF p.connectionPool = 0 THEN MakeConnection(p, th) ELSE Head(p.queue)

\* connectionPool_.emplace(c); --borrowedConnections_
PutBack(p, c) ==
    [p EXCEPT !.connectionPool = @ + 1, !.borrowedConnections = @ - 1,
              !.queue = Append(@, c)]

\* DatabaseManager::releaseConnection of connection c under the lock: isOpen =
\* c is open; step = what opening the replacement n does: "ok", "notopen",
\* "throws"
ReleaseConnectionLocked(p, c, n, isOpen, step) ==
    IF isOpen THEN PutBack(p, c)
    ELSE IF step = "ok" THEN PutBack(p, n) ELSE p

\* DatabaseManager::handleConnectionError of connection c under the lock:
\* step = what opening the replacement n does, or what set_client_encoding
\* does on an open connection
HandleConnectionErrorLocked(p, c, n, isOpen, step) ==
    IF ~isOpen
    THEN IF step = "ok" THEN PutBack(p, n) ELSE p
    ELSE IF step = "throws" THEN p ELSE PutBack(p, c)

\* a notify_one that wakes no waiter
NotifyNone(th, w) == th

\* poolCondition_.notify_one(): w is the waiter it wakes, if one is blocked
NotifyOne(th, w) ==
    IF th[w].pc = "waiting" /\ ~th[w].notified
    THEN [th EXCEPT ![w].notified = TRUE]
    ELSE th

Blocked(th) == {u \in Threads : th[u].pc = "waiting" /\ ~th[u].notified}

\* DatabaseManager::acquireConnection up to the first evaluation of wait_for
AcquireConnection(t) ==
    /\ thr[t].pc = "idle"
    /\ LET o == WaitFor(pool.connectionPool = 0, ConnectionTimeout <= 0)
       IN  IF o = "ready"
           THEN /\ pool' = TakeConnection(pool)
                /\ thr' = [thr EXCEPT ![t] = [NewThread EXCEPT !.pc = "holding",
                                                               !.got = Taken(pool),
                                                               !.conn = TakenConnection(pool, thr)]]
           ELSE /\ pool' = pool
                /\ thr' = [thr EXCEPT ![t] =
                              [NewThread EXCEPT !.pc = IF o = "timeout" THEN "timeout"
                                                       ELSE "waiting",
                                                !.deadline = now + ConnectionTimeout]]
    /\ UNCHANGED <<now, sessVars, srvVars, authVars, hndVars, msgVars, callVars>>

\* a thread blocked in wait_for wakes (notified, timed out or spuriously),
\* takes the lock and evaluates wait_for again
WakeUp(t) ==
    /\ thr[t].pc = "waiting"
    /\ LET o == WaitFor(pool.connectionPool = 0, now >= thr[t].deadline)
       IN  CASE o = "ready" ->
                 /\ pool' = TakeConnection(pool)
                 /\ thr' = [thr EXCEPT ![t].pc = "holding", ![t].notified = FALSE,
                                       ![t].got = Taken(pool),
                                       ![t].conn = TakenConnection(pool, thr)]
             [] o = "timeout" ->
                 /\ pool' = pool
                 /\ thr' = [thr EXCEPT ![t].pc = "timeout", ![t].notified = FALSE]
             [] o = "wait" ->
                 /\ pool' = pool
                 /\ thr' = [thr EXCEPT ![t].notified = FALSE]
    /\ UNCHANGED <<now, sessVars, srvVars, authVars, hndVars, msgVars, callVars>>

\* the exception "Timeout waiting for database connection" reaches the caller
TimeoutThrown(t) ==
    /\ thr[t].pc = "timeout"
    /\ thr' = [thr EXCEPT ![t] = NewThread]
    /\ UNCHANGED <<now, pool, sessVars, srvVars, authVars, hndVars, msgVars, callVars>>

\* DatabaseManager::releaseConnection
ReleaseConnection(t) ==
    /\ thr[t].pc = "holding"
    /\ \E isOpen \in BOOLEAN, step \in {"ok", "notopen", "throws"}, w \in Threads :
          /\ isOpen => step = "ok"
          /\ w \in Blocked(thr) \/ (Blocked(thr) = {} /\ w = t)
          /\ pool' = ReleaseConnectionLocked(pool, thr[t].conn, MakeConnection(pool, thr),
                                             isOpen, step)
          /\ thr' = NotifyOne([thr EXCEPT ![t] = NewThread], w)
    /\ UNCHANGED <<now, sessVars, srvVars, authVars, hndVars, msgVars, callVars>>

\* the catch blocks of DatabaseManager::executeQuery: the query has thrown,
\* DatabaseManager::handleConnectionError runs
HandleConnectionError(t) ==
    /\ thr[t].pc = "holding"
    /\ \E isOpen \in BOOLEAN, step \in {"ok", "notopen", "throws"}, w \in Threads :
          /\ isOpen => step # "notopen"
          /\ w \in Blocked(thr) \/ (Blocked(thr) = {} /\ w = t)
          /\ pool' = HandleConnectionErrorLocked(pool, thr[t].conn, MakeConnection(pool, thr),
                                                 isOpen, step)
          /\ thr' = NotifyOne([thr EXCEPT ![t] = [NewThread EXCEPT !.pc = "failed"]], w)
    /\ UNCHANGED <<now, sessVars, srvVars, authVars, hndVars, msgVars, callVars>>

\* the exception "Query execution failed" reaches the caller of executeQuery
QueryErrorThrown(t) ==
    /\ thr[t].pc = "failed"
    /\ thr' = [thr EXCEPT ![t] = NewThread]
    /\ UNCHANGED <<now, pool, sessVars, srvVars, authVars, hndVars, msgVars, callVars>>

\* Time passes. A wait_for whose timeout is reached returns before the clock
\* moves on.
PoolTick ==
    /\ now < MaxPoolTime
    /\ \A t \in Threads :
          thr[t].pc = "waiting" =>
              ~(now >= thr[t].deadline
                  /\ WaitFor(pool.connectionPool = 0, TRUE) # "wait")
    /\ now' = now + 1
    /\ UNCHANGED <<pool, thr, sessVars, srvVars, authVars, hndVars, msgVars, callVars>>

-----------------------------------------------------------------------------
(* JWTManager (JWTManager.cpp), AuthHandlers and the other handlers' token
   checks (UserHandlers.cpp, MessageHandlers.cpp) *)

\* A token is what it was signed over: type, userID, iat and exp, in seconds.
\* Two tokens minted for one user in one second are the same string.
NoToken == [type |-> "none", user |-> "none", iat |-> 0, exp |-> 0]

\* JWTManager::generateAccessToken
GenerateAccessToken(u) ==
    [type |-> "access", user |-> u, iat |-> now, exp |-> now + AccessTokenExpiry]

\* JWTManager::generateRefreshToken
GenerateRefreshToken(u) ==
    [type |-> "refresh", user |-> u, iat |-> now, exp |-> now + RefreshTokenExpiry]

\* PasswordHasher::sha256 as used for token_hash: one-way, injective here
Sha256(tok) == <<"sha256", tok>>

NoResponse ==
    [route |-> "none", status |-> 0, code |-> "none", token |-> NoToken,
     revoked |-> FALSE, unexpired |-> FALSE, fault |-> "none", refreshToken |-> NoToken]

\* a refresh call that has not begun: where the worker thread serving the client
\* is in handleRefresh, the token presented and the status answered
NoRefresh == [pc |-> "idle", token |-> NoToken, status |-> 0]

\* a client that holds no tokens
NoSession == [access |-> NoToken, refresh |-> NoToken, revoked |-> FALSE]

\* the state after construction: the users are registered, nobody is logged in
NewAuth ==
    [ blacklistedTokens |-> {},   \* JWTManager::blacklistedTokens_: token and expiry
      users             |-> Users,\* user_id of the rows of table users
      refresh_tokens    |-> {},   \* rows of table refresh_tokens
      access            |-> {},   \* access tokens handed to clients
      refresh           |-> {},   \* refresh tokens handed to clients
      loggedOut         |-> {},   \* access tokens whose logout was answered 200
      rotated           |-> {},   \* refresh tokens whose refresh was answered 200
      added             |-> {},   \* tokens addTokenToBlacklist was called with
      sessions          |-> [c \in Clients |-> NoSession],
                                  \* the token pair each client was handed
      work              |-> [c \in Clients |-> NoRefresh],
                                  \* the refresh call of each client in progress
      last              |-> NoResponse ]

\* JWTManager::isTokenBlacklisted
\* a lookup that does not compare the entry's expiry with the clock
IsTokenBlacklistedForever(tok) ==
    \E e \in auth.blacklistedTokens : e.token = tok

IsTokenBlacklisted(tok) ==
    \E e \in auth.blacklistedTokens : e.token = tok /\ e.expiry > now

\* JWTManager::addTokenToBlacklist: blacklistedTokens_[token] = getTokenExpiry(token)
AddTokenToBlacklist(a, tok) ==
    IF tok = NoToken
    THEN a
    ELSE [a EXCEPT !.blacklistedTokens =
             {e \in @ : e.token # tok} \cup {[token |-> tok, expiry |-> tok.exp]},
                   !.added = @ \cup {tok}]

\* JWTManager::cleanupExpiredBlacklistedTokens (nothing in the program calls it)
CleanupExpiredBlacklistedTokens(a) ==
    [a EXCEPT !.blacklistedTokens = {e \in @ : ~(e.expiry <= now)}]

\* JWTManager::verifyAndDecode: TRUE when it returns a payload, FALSE when it
\* throws (empty, blacklisted, or refused by the verifier: past its exp)
VerifyAndDecode(tok) ==
    /\ tok # NoToken
    /\ ~IsTokenBlacklisted(tok)
    /\ ~(now > tok.exp)

\* AuthHandlers::isAuthTokenValid, MessageHandlers::isAuthTokenValid
IsAuthTokenValid(tok) ==
    VerifyAndDecode(tok) /\ tok.type = "access"

\* the row AuthHandlers::storeRefreshToken inserts
RefreshRow(u, tok) ==
    [user_id |-> u, token_hash |-> Sha256(tok), expires_at |-> tok.exp]

\* AuthHandlers::invalidateRefreshToken: DELETE ... WHERE token_hash = sha256(token)
InvalidateRefreshToken(rows, tok) ==
    {row \in rows : row.token_hash # Sha256(tok)}

BodyFaults == {"INVALID_CONTENT_TYPE", "INVALID_JSON", "MISSING_TOKEN"}

\* the response, with what the call presented
Respond(a, route, status, code, tok, fault) ==
    [a EXCEPT !.last =
        [route |-> route, status |-> status, code |-> code, token |-> tok,
         revoked |-> tok \in auth.loggedOut \cup auth.rotated,
         unexpired |-> now < tok.exp, fault |-> fault, refreshToken |-> NoToken]]

\* AuthHandlers::handleLogin for user u; fault = the check or store call that
\* fails, if it is reached
HandleLogin(u, fault) ==
    LET accessToken == GenerateAccessToken(u)
        refreshToken == GenerateRefreshToken(u)
    IN  IF fault \in BodyFaults
        THEN Respond(auth, "login", 400, fault, NoToken, fault)
        ELSE IF fault = "select"
        THEN Respond(auth, "login", 500, "LOGIN_FAILED", NoToken, fault)
        ELSE IF u \notin auth.users \/ fault = "password"
        THEN Respond(auth, "login", 401, "INVALID_CREDENTIALS", NoToken, fault)
        ELSE IF fault = "insert"
        THEN Respond(auth, "login", 500, "TOKEN_STORAGE_FAILED", NoToken, fault)
        ELSE Respond([auth EXCEPT
                        !.refresh_tokens = @ \cup {RefreshRow(u, refreshToken)},
                        !.access = @ \cup {accessToken},
                        !.refresh = @ \cup {refreshToken}],
                     "login", 200, "OK", NoToken, "none")

\* AuthHandlers::handleRefresh presenting tok
HandleRefresh(tok, fault) ==
    LET newAccessToken == GenerateAccessToken(tok.user)
        newRefreshToken == GenerateRefreshToken(tok.user)
        stored == auth.refresh_tokens \cup {RefreshRow(tok.user, newRefreshToken)}
    IN  IF fault \in BodyFaults
        THEN Respond(auth, "refresh", 400, fault, tok, fault)
        ELSE IF fault = "type" \/ ~VerifyAndDecode(tok)
        THEN Respond(auth, "refresh", 401, "REFRESH_FAILED", tok, fault)
        ELSE IF tok.type # "refresh"
        THEN Respond(auth, "refresh", 401, "INVALID_REFRESH_TOKEN", tok, "none")
        ELSE IF fault = "select"
        THEN Respond(auth, "refresh", 401, "REFRESH_FAILED", tok, fault)
        ELSE IF ~\E row \in auth.refresh_tokens :
                    row.token_hash = Sha256(tok) /\ row.expires_at > now
        THEN Respond(auth, "refresh", 401, "INVALID_REFRESH_TOKEN", tok, "none")
        ELSE IF fault = "user"
        THEN Respond(auth, "refresh", 401, "REFRESH_FAILED", tok, fault)
        ELSE IF tok.user \notin auth.users
        THEN Respond(auth, "refresh", 401, "USER_NOT_FOUND", tok, "none")
        ELSE IF fault = "insert"
        THEN Respond(auth, "refresh", 500, "TOKEN_STORAGE_FAILED", tok, fault)
        ELSE Respond([auth EXCEPT
                        !.refresh_tokens =
                            IF fault = "delete" THEN stored
                            ELSE InvalidateRefreshToken(stored, tok),
                        !.access = @ \cup {newAccessToken},
                        !.refresh = @ \cup {newRefreshToken},
                        !.rotated = @ \cup {tok}],
                     "refresh", 200, "OK", tok,
                     IF fault = "delete" THEN fault ELSE "none")

\* handleRefresh from the generation of the new tokens on, without faults
HandleRefreshStore(tok) ==
    LET newAccessToken == GenerateAccessToken(tok.user)
        newRefreshToken == GenerateRefreshToken(tok.user)
        stored == auth.refresh_tokens \cup {RefreshRow(tok.user, newRefreshToken)}
    IN  Respond([auth EXCEPT !.refresh_tokens = InvalidateRefreshToken(stored, tok),
                             !.access = @ \cup {newAccessToken},
                             !.refresh = @ \cup {newRefreshToken},
                             !.rotated = @ \cup {tok}],
                "refresh", 200, "OK", tok, "none")

\* AuthHandlers::handleLogout presenting accessToken, with refreshToken in the body
HandleLogout(accessToken, refreshToken, fault) ==
    IF accessToken = NoToken
    THEN Respond(auth, "logout", 401, "INVALID_TOKEN", accessToken, "none")
    ELSE IF fault \in BodyFaults
    THEN Respond(auth, "logout", 400, fault, accessToken, fault)
    ELSE IF fault = "type"
    THEN Respond(auth, "logout", 500, "LOGOUT_FAILED", accessToken, fault)
    ELSE IF ~IsAuthTokenValid(accessToken)
    THEN Respond(auth, "logout", 401, "INVALID_TOKEN", accessToken, "none")
    ELSE [Respond([AddTokenToBlacklist(auth, accessToken) EXCEPT
                     !.refresh_tokens =
                         IF fault = "delete" THEN @
                         ELSE InvalidateRefreshToken(@, refreshToken),
                     !.loggedOut = @ \cup {accessToken}],
                  "logout", 200, "OK", accessToken,
                  IF fault = "delete" THEN fault ELSE "none")
          EXCEPT !.last.refreshToken = refreshToken]

\* AuthHandlers::handleChangePassword presenting accessToken; rest = what the
\* password checks and the UPDATE answer once the token is accepted
HandleChangePassword(accessToken, fault, rest) ==
    IF accessToken = NoToken
    THEN Respond(auth, "password", 401, "INVALID_TOKEN", accessToken, "none")
    ELSE IF fault \in BodyFaults
    THEN Respond(auth, "password", 400,
                 IF fault = "MISSING_TOKEN" THEN "MISSING_FIELDS" ELSE fault,
                 accessToken, fault)
    ELSE IF fault = "type"
    THEN Respond(auth, "password", 500, "PASSWORD_CHANGE_FAILED", accessToken, fault)
    ELSE IF ~IsAuthTokenValid(accessToken)
    THEN Respond(auth, "password", 401, "INVALID_TOKEN", accessToken, "none")
    ELSE Respond(auth, "password", rest.status, rest.code, accessToken, "none")

\* AuthHandlers::handleDeleteAccount presenting accessToken
HandleDeleteAccount(accessToken, fault) ==
    IF accessToken = NoToken \/ ~IsAuthTokenValid(accessToken)
    THEN Respond(auth, "account", 401, "INVALID_TOKEN", accessToken, "none")
    ELSE IF fault = "delete"
    THEN Respond(auth, "account", 500, "ACCOUNT_DELETION_FAILED", accessToken, fault)
    ELSE Respond([AddTokenToBlacklist(auth, accessToken) EXCEPT
                    !.users = @ \ {accessToken.user},
                    !.refresh_tokens = {row \in @ : row.user_id # accessToken.user}],
                 "account", 200, "OK", accessToken, "none")

\* the token check that opens MessageHandlers::handleSendMessage; rest = what
\* the handler answers once the token is accepted
HandleSendMessage(accessToken, rest) ==
    IF accessToken = NoToken \/ ~IsAuthTokenValid(accessToken)
    THEN Respond(auth, "messages", 401, "INVALID_TOKEN", accessToken, "none")
    ELSE Respond(auth, "messages", rest.status, rest.code, accessToken, "none")

\* what a client can put in the Authorization header
Presented == auth.access \cup auth.refresh \cup {NoToken}

PasswordAnswers ==
    {[status |-> 200, code |-> "OK"], [status |-> 403, code |-> "INVALID_PASSWORD"]}

\* a token pair minted now can still be handed out
CanMint(u) ==
    Cardinality(auth.refresh \cup {GenerateRefreshToken(u)}) <= MaxTokens

MessageAnswers ==
    {[status |-> 201, code |-> "OK"], [status |-> 400, code |-> "INVALID_CONTENT_TYPE"]}

\* client c is handed a token pair for user u (the token generation of a login)
Mint(c, u) ==
    /\ auth' = [auth EXCEPT !.sessions[c] =
                    [access |-> GenerateAccessToken(u), refresh |-> GenerateRefreshToken(u),
                     revoked |-> FALSE]]
    /\ UNCHANGED <<now, sessVars, srvVars, poolVars, hndVars, msgVars, callVars>>

\* the access token of client c is revoked (the revocation of a logout)
Revoke(c) ==
    /\ auth' = [AddTokenToBlacklist(auth, auth.sessions[c].access)
                    EXCEPT !.sessions[c].revoked = TRUE]
    /\ UNCHANGED <<now, sessVars, srvVars, poolVars, hndVars, msgVars, callVars>>

Login(u) ==
    /\ CanMint(u)
    /\ \E fault \in {"none", "INVALID_JSON", "select", "password", "insert"} :
          auth' = HandleLogin(u, fault)
    /\ UNCHANGED <<now, sessVars, srvVars, poolVars, hndVars, msgVars, callVars>>

Refresh ==
    /\ \E tok \in auth.access \cup auth.refresh,
          fault \in {"none", "INVALID_CONTENT_TYPE", "select", "insert", "delete"} :
          /\ CanMint(tok.user)
          /\ auth' = HandleRefresh(tok, fault)
    /\ UNCHANGED <<now, sessVars, srvVars, poolVars, hndVars, msgVars, callVars>>

Logout ==
    /\ \E a \in Presented, r \in auth.refresh,
          fault \in {"none", "INVALID_CONTENT_TYPE", "delete"} :
          auth' = HandleLogout(a, r, fault)
    /\ UNCHANGED <<now, sessVars, srvVars, poolVars, hndVars, msgVars, callVars>>

ChangePassword ==
    /\ \E a \in Presented, fault \in {"none", "INVALID_JSON", "type"},
          rest \in PasswordAnswers :
          auth' = HandleChangePassword(a, fault, rest)
    /\ UNCHANGED <<now, sessVars, srvVars, poolVars, hndVars, msgVars, callVars>>

DeleteAccount ==
    /\ \E a \in Presented, fault \in {"none", "delete"} :
          auth' = HandleDeleteAccount(a, fault)
    /\ UNCHANGED <<now, sessVars, srvVars, poolVars, hndVars, msgVars, callVars>>

SendMessage ==
    /\ \E a \in Presented, rest \in MessageAnswers :
          auth' = HandleSendMessage(a, rest)
    /\ UNCHANGED <<now, sessVars, srvVars, poolVars, hndVars, msgVars, callVars>>

\* handleRefresh for client c, up to the two SELECT statements: the token is
\* verified and its row and the user's row are looked up, each statement in a
\* transaction of its own (DatabaseManager::executeQuery)
RefreshSelect(c) ==
    /\ auth.work[c].pc \in {"idle", "done"}
    /\ \E tok \in auth.refresh :
         /\ CanMint(tok.user)
         /\ LET found == /\ VerifyAndDecode(tok)
                         /\ \E row \in auth.refresh_tokens :
                                row.token_hash = Sha256(tok) /\ row.expires_at > now
                         /\ tok.user \in auth.users
                r == Respond(auth, "refresh", 401,
                             IF VerifyAndDecode(tok) THEN "INVALID_REFRESH_TOKEN"
                             ELSE "REFRESH_FAILED", tok, "none")
            IN  auth' = IF found
                        THEN [auth EXCEPT !.work[c] = [pc |-> "found", token |-> tok, status |-> 0]]
                        ELSE [r EXCEPT !.work[c] = [pc |-> "done", token |-> tok, status |-> 401]]
    /\ UNCHANGED <<now, sessVars, srvVars, poolVars, hndVars, msgVars, callVars>>

\* the rest of handleRefresh for client c: the new tokens, storeRefreshToken,
\* invalidateRefreshToken and the answer
RefreshStore(c) ==
    /\ auth.work[c].pc = "found"
    /\ LET tok == auth.work[c].token
           r == HandleRefreshStore(tok)
       IN  auth' = [r EXCEPT !.work[c] = [pc |-> "done", token |-> tok, status |-> r.last.status]]
    /\ UNCHANGED <<now, sessVars, srvVars, poolVars, hndVars, msgVars, callVars>>

AuthTick ==
    /\ now < MaxAuthTime
    /\ now' = now + 1
    /\ UNCHANGED <<auth, sessVars, srvVars, poolVars, hndVars, msgVars, callVars>>

-----------------------------------------------------------------------------
(* Session handlers run by the executor *)

Start(s) ==
    /\ ExecutorRuns
    /\ s \in created
    /\ sess[s].phase = "Accepted"
    /\ sess' = [sess EXCEPT ![s] = StartSession(@)]
    /\ UNCHANGED <<now, created, srv>>
    /\ UNCHANGED <<poolVars, authVars, hndVars, msgVars, callVars>>

HandshakeDone(s) ==
    /\ ExecutorRuns
    /\ "handshake" \in sess[s].ops
    /\ \E ec \in {EcSuccess, EcAborted, EcOther} :
           sess' = [sess EXCEPT ![s] = OnHandshake(@, ec)]
    /\ UNCHANGED <<now, created, srv>>
    /\ UNCHANGED <<poolVars, authVars, hndVars, msgVars, callVars>>

ReadDone(s) ==
    /\ ExecutorRuns
    /\ "read" \in sess[s].ops
    /\ \E ec \in {EcSuccess} \cup ErrorCodes, req \in Requests :
           /\ ec # EcSuccess => req = CHOOSE q \in Requests : TRUE
           /\ sess' = [sess EXCEPT ![s] = OnRead(@, ec, req)]
    /\ UNCHANGED <<now, created, srv>>
    /\ UNCHANGED <<poolVars, authVars, hndVars, msgVars, callVars>>

Dispatch(s) ==
    /\ ExecutorRuns
    /\ sess[s].phase = "Dispatching"
    /\ \E threw \in BOOLEAN : sess' = [sess EXCEPT ![s] = OnDispatch(@, threw)]
    /\ UNCHANGED <<now, created, srv>>
    /\ UNCHANGED <<poolVars, authVars, hndVars, msgVars, callVars>>

WriteDone(s) ==
    /\ ExecutorRuns
    /\ "write" \in sess[s].ops
    /\ \E ec \in {EcSuccess, EcAborted, EcOther} :
           sess' = [sess EXCEPT ![s] = OnWrite(@, ec)]
    /\ UNCHANGED <<now, created, srv>>
    /\ UNCHANGED <<poolVars, authVars, hndVars, msgVars, callVars>>

ShutdownDone(s) ==
    /\ ExecutorRuns
    /\ "shutdown" \in sess[s].ops
    /\ \E ec \in {EcSuccess, EcEndOfStream, EcOther} :
           sess' = [sess EXCEPT ![s] = OnShutdown(@, ec)]
    /\ UNCHANGED <<now, created, srv>>
    /\ UNCHANGED <<poolVars, authVars, hndVars, msgVars, callVars>>

TimerDone(s) ==
    /\ ExecutorRuns
    /\ TimerReady(sess[s])
    /\ sess' = [sess EXCEPT ![s] = OnTimer(@)]
    /\ UNCHANGED <<now, created, srv>>
    /\ UNCHANGED <<poolVars, authVars, hndVars, msgVars, callVars>>

\* Time passes. A wait whose expiry is reached completes before the clock
\* moves on (the executor is not kept from running the handler).
Tick ==
    /\ now < MaxTime
    /\ \A s \in created : ~(sess[s].timerWait = "pending" /\ Expired(sess[s]))
    /\ now' = now + 1
    /\ UNCHANGED <<sess, created, srv>>
    /\ UNCHANGED <<poolVars, authVars, hndVars, msgVars, callVars>>

-----------------------------------------------------------------------------
(* The router and the request handlers (Router.cpp, UserHandlers.cpp,      *)
(* MessageHandlers.cpp, IHandler.cpp).  A request target is kept as its    *)
(* path segments, whether it ends with a slash and whether it carries a    *)
(* query string; a JSON value is kept as its kind and its content.         *)

\* the worker threads that run io_context::run and so the handlers
Workers == {"w1", "w2"}

\* logins that pass Validators::isLoginValid, and one that does not
Logins == {"alice", "bob"}
BadLogin == "a!"

\* a password that passes Validators::isPasswordValid, and one that does not
GoodPassword == "passw0rd"
BadPassword == "short"

Methods == {"GET", "POST", "PUT", "DELETE"}

Target(segs, slash, query) == [segs |-> segs, slash |-> slash, query |-> query]

ApiV1(rest) == <<"api", "v1">> \o rest

AuthPaths ==
    {ApiV1(<<"auth", e>>) : e \in {"register", "login", "refresh", "logout", "password", "account"}}

UserPaths == {ApiV1(<<"users">>), ApiV1(<<"users", "search">>)}

MessagePaths == {ApiV1(<<"messages">>), ApiV1(<<"messages", "send">>), ApiV1(<<"messages", "read">>)}

RegisteredPaths == AuthPaths \cup UserPaths \cup MessagePaths

\* the characters of the words of the paths
Letters(word) ==
    CASE word = "api" -> <<"a", "p", "i">>
      [] word = "v1" -> <<"v", "1">>
      [] word = "auth" -> <<"a", "u", "t", "h">>
      [] word = "users" -> <<"u", "s", "e", "r", "s">>
      [] word = "usersX" -> <<"u", "s", "e", "r", "s", "X">>
      [] word = "messages" -> <<"m", "e", "s", "s", "a", "g", "e", "s">>
      [] word = "register" -> <<"r", "e", "g", "i", "s", "t", "e", "r">>
      [] word = "login" -> <<"l", "o", "g", "i", "n">>
      [] word = "refresh" -> <<"r", "e", "f", "r", "e", "s", "h">>
      [] word = "logout" -> <<"l", "o", "g", "o", "u", "t">>
      [] word = "password" -> <<"p", "a", "s", "s", "w", "o", "r", "d">>
      [] word = "account" -> <<"a", "c", "c", "o", "u", "n", "t">>
      [] word = "search" -> <<"s", "e", "a", "r", "c", "h">>
      [] word = "send" -> <<"s", "e", "n", "d">>
      [] word = "read" -> <<"r", "e", "a", "d">>
      [] word = "unknown" -> <<"u", "n", "k", "n", "o", "w", "n">>
      [] word = "other" -> <<"o", "t", "h", "e", "r">>
      [] word = "5" -> <<"5">>
      [] word = "" -> <<>>

\* the text of a path: a slash before each of its words
RECURSIVE PathString(_)
PathString(segs) ==
    IF segs = <<>> THEN <<>> ELSE <<"/">> \o Letters(Head(segs)) \o PathString(Tail(segs))

\* request.target(): the path, a trailing slash and a query string where the
\* request has them
TargetString(t) ==
    (IF t.segs = <<>> THEN <<"/">> ELSE PathString(t.segs))
        \o (IF t.slash THEN <<"/">> ELSE <<>>)
        \o (IF t.query THEN <<"?", "x">> ELSE <<>>)

\* a.find(b) == 0
IsPrefix(r, p) == Len(r) <= Len(p) /\ SubSeq(p, 1, Len(r)) = r

\* requestPath.substr(0, requestPath.find('?'))
RECURSIVE WithoutQuery(_)
WithoutQuery(requestPath) ==
    IF requestPath = <<>> \/ Head(requestPath) = "?" THEN <<>>
    ELSE <<Head(requestPath)>> \o WithoutQuery(Tail(requestPath))

\* Router::normalizePath: a leading slash is added, one trailing slash removed
NormalizePath(path) ==
    IF path = <<>> \/ path = <<"/">> THEN <<"/">>
    ELSE LET normalized == IF Head(path) # "/" THEN <<"/">> \o path ELSE path
         IN  IF Len(normalized) > 1 /\ normalized[Len(normalized)] = "/"
             THEN SubSeq(normalized, 1, Len(normalized) - 1)
             ELSE normalized

\* std::getline(iss, part, '/') until the end, the empty parts left out
RECURSIVE Parts(_, _)
Parts(rest, part) ==
    IF rest = <<>> THEN (IF part = <<>> THEN <<>> ELSE <<part>>)
    ELSE IF Head(rest) = "/"
    THEN (IF part = <<>> THEN <<>> ELSE <<part>>) \o Parts(Tail(rest), <<>>)
    ELSE Parts(Tail(rest), Append(part, Head(rest)))

\* Router::extractBasePath: the first two parts of the path
ExtractBasePath(fullPath) ==
    LET parts == Parts(fullPath, <<>>)
    IN  IF fullPath = <<>> \/ fullPath = <<"/">> THEN <<"/">>
        ELSE IF Len(parts) >= 2 THEN <<"/">> \o parts[1] \o <<"/">> \o parts[2]
        ELSE IF Len(parts) = 1 THEN <<"/">> \o parts[1]
        ELSE <<"/">>

\* a match that takes every string prefix
IsPathMatchAnyPrefix(requestPath, registeredPath) ==
    requestPath = registeredPath \/ IsPrefix(registeredPath, requestPath)

\* Router::isPathMatch: the registered path, then the end of the request path or
\* a slash
IsPathMatch(requestPath, registeredPath) ==
    \/ requestPath = registeredPath
    \/ /\ IsPrefix(registeredPath, requestPath)
       /\ \/ Len(requestPath) = Len(registeredPath)
          \/ requestPath[Len(registeredPath) + 1] = "/"

\* Router::registerHandler: the handler is stored under the normalized path
RegisterHandler(handlers, path, handler) ==
    LET normalizedPath == NormalizePath(path)
    IN  [r \in DOMAIN handlers \cup {normalizedPath} |->
            IF r = normalizedPath THEN handler ELSE handlers[r]]

\* Router::findHandler: the handlers it may return for a target. Exact match,
\* then the base path, then the first registered prefix the loop over the
\* unordered_map meets, which may be any of them
FindHandler(handlers, target) ==
    LET normalizedPath == NormalizePath(WithoutQuery(target))
        basePath == ExtractBasePath(normalizedPath)
        prefixes == {registeredPath \in DOMAIN handlers :
                        /\ IsPrefix(registeredPath, normalizedPath)
                        /\ IsPathMatch(normalizedPath, registeredPath)}
    IN  IF normalizedPath \in DOMAIN handlers THEN {handlers[normalizedPath]}
        ELSE IF basePath \in DOMAIN handlers /\ IsPathMatch(normalizedPath, basePath)
        THEN {handlers[basePath]}
        ELSE IF prefixes # {} THEN {handlers[registeredPath] : registeredPath \in prefixes}
        ELSE {"none"}

\* Server::initializeRouter
RECURSIVE RegisterAll(_, _)
RegisterAll(handlers, paths) ==
    IF paths = {} THEN handlers
    ELSE LET p == CHOOSE q \in paths : TRUE
         IN  RegisterAll(RegisterHandler(handlers, PathString(p),
                                         IF p \in AuthPaths THEN "AuthHandlers"
                                         ELSE IF p \in UserPaths THEN "UserHandlers"
                                         ELSE "MessageHandlers"),
                         paths \ {p})

\* Router::handlers_ after Server::initializeRouter
RegisteredHandlers == RegisterAll(<<>>, RegisteredPaths)

\* path == "...": the whole target, query string and trailing slash included
PathIs(t, segs) == t.segs = segs /\ ~t.slash /\ ~t.query

\* path.find("...") == 0
PathStartsWith(t, segs) == IsPrefix(segs, t.segs)

AuthHandlersRequest(m, t) ==
    IF PathIs(t, ApiV1(<<"auth", "register">>)) /\ m = "POST" THEN "handleRegister"
    ELSE IF PathIs(t, ApiV1(<<"auth", "login">>)) /\ m = "POST" THEN "handleLogin"
    ELSE IF PathIs(t, ApiV1(<<"auth", "refresh">>)) /\ m = "POST" THEN "handleRefresh"
    ELSE IF PathIs(t, ApiV1(<<"auth", "logout">>)) /\ m = "POST" THEN "handleLogout"
    ELSE IF PathIs(t, ApiV1(<<"auth", "password">>)) /\ m = "PUT" THEN "handleChangePassword"
    ELSE IF PathIs(t, ApiV1(<<"auth", "account">>)) /\ m = "DELETE" THEN "handleDeleteAccount"
    ELSE "notFound"

UserHandlersRequest(m, t) ==
    IF PathStartsWith(t, ApiV1(<<"users", "search">>)) /\ m = "GET" THEN "handleSearchUsers"
    ELSE IF PathStartsWith(t, ApiV1(<<"users">>)) /\ m = "GET" THEN "handleGetUsers"
    ELSE "notFound"

MessageHandlersRequest(m, t) ==
    IF PathIs(t, ApiV1(<<"messages", "send">>)) /\ m = "POST" THEN "handleSendMessage"
    ELSE IF PathIs(t, ApiV1(<<"messages", "read">>)) /\ m = "POST" THEN "handleMarkAsRead"
    ELSE IF PathStartsWith(t, ApiV1(<<"messages">>)) /\ m = "GET" THEN "handleGetMessages"
    ELSE "notFound"

\* Session::onRead: the router picks the handler, the handler the operation
HandleRequest(m, t) ==
    LET h == CHOOSE found \in FindHandler(RegisteredHandlers, TargetString(t)) : TRUE
    IN  IF h = "AuthHandlers" THEN AuthHandlersRequest(m, t)
        ELSE IF h = "UserHandlers" THEN UserHandlersRequest(m, t)
        ELSE IF h = "MessageHandlers" THEN MessageHandlersRequest(m, t)
        ELSE "handleNotFound"

\* JSON values
JAbsent == [kind |-> "absent", s |-> "", items |-> <<>>]
JNumber == [kind |-> "number", s |-> "", items |-> <<>>]
JString(s) == [kind |-> "string", s |-> s, items |-> <<>>]
JArray(items) == [kind |-> "array", s |-> "", items |-> items]

\* basic_json::get<std::string>: throws type_error unless the value is a string
GetString(v) == [threw |-> v.kind # "string", value |-> v.s]

\* basic_json::get<std::vector<std::string>>: throws type_error unless every
\* element is a string
GetStrings(v) ==
    [threw |-> v.kind # "array" \/ \E i \in DOMAIN v.items : GetString(v.items[i]).threw,
     value |-> v.items]

\* Validators::isLoginValid and Validators::isPasswordValid on the strings of the model
IsLoginValid(login) == login \in Logins
IsPasswordValid(password) == password = GoodPassword

\* outcomes of an operation: a response, a call that goes on to the database,
\* or an exception that leaves a noexcept function (std::terminate)
Answer(status, code) == [kind |-> "response", status |-> status, code |-> code, login |-> ""]
Terminate == [kind |-> "terminate", status |-> 0, code |-> "", login |-> ""]
GoOn(login) == [kind |-> "insert", status |-> 0, code |-> "", login |-> login]

\* AuthHandlers::isUserExists: false when the query throws
IsUserExists(users, login, selectThrows) == ~selectThrows /\ login \in users

\* AuthHandlers::handleRegister up to the try block
HandleRegister(users, json, valid, body, selectThrows) ==
    IF ~json THEN Answer(400, "INVALID_CONTENT_TYPE")
    ELSE IF ~valid THEN Answer(400, "INVALID_JSON")
    ELSE IF body.login.kind = "absent" \/ body.password.kind = "absent" THEN Answer(400, "MISSING_FIELDS")
    ELSE IF GetString(body.login).threw THEN Terminate
    ELSE IF ~IsLoginValid(GetString(body.login).value) THEN Answer(400, "INVALID_LOGIN")
    ELSE IF IsUserExists(users, GetString(body.login).value, selectThrows) THEN Answer(409, "LOGIN_EXISTS")
    ELSE IF GetString(body.password).threw THEN Terminate
    ELSE IF ~IsPasswordValid(GetString(body.password).value) THEN Answer(400, "INVALID_PASSWORD")
    ELSE GoOn(GetString(body.login).value)

\* the try block of handleRegister: INSERT INTO users, where login is UNIQUE
InsertUser(users, login, insertThrows) ==
    IF insertThrows \/ login \in users
    THEN [users |-> users, answer |-> Answer(500, "REGISTRATION_FAILED")]
    ELSE [users |-> users \cup {login}, answer |-> Answer(201, "")]

\* handleMarkAsRead without the test for an empty list
HandleMarkAsReadAnyList(tokenValid, json, valid, body, updateThrows) ==
    IF ~tokenValid THEN Answer(401, "INVALID_TOKEN")
    ELSE IF ~json THEN Answer(400, "INVALID_CONTENT_TYPE")
    ELSE IF ~valid THEN Answer(400, "INVALID_JSON")
    ELSE IF body.message_ids.kind # "array" THEN Answer(400, "EMPTY_MESSAGE_IDS")
    ELSE IF GetStrings(body.message_ids).threw THEN Terminate
    ELSE IF updateThrows THEN Answer(500, "MARK_READ_FAILED")
    ELSE Answer(200, "")

\* MessageHandlers::handleMarkAsRead
HandleMarkAsRead(tokenValid, json, valid, body, updateThrows) ==
    IF ~tokenValid THEN Answer(401, "INVALID_TOKEN")
    ELSE IF ~json THEN Answer(400, "INVALID_CONTENT_TYPE")
    ELSE IF ~valid THEN Answer(400, "INVALID_JSON")
    ELSE IF body.message_ids.kind # "array" THEN Answer(400, "EMPTY_MESSAGE_IDS")
    ELSE IF GetStrings(body.message_ids).threw THEN Terminate
    ELSE IF GetStrings(body.message_ids).value = <<>> THEN Answer(400, "EMPTY_MESSAGE_IDS")
    ELSE IF updateThrows THEN Answer(500, "MARK_READ_FAILED")
    ELSE Answer(200, "")

\* the bodies sent to register and to mark-as-read
LoginValues == {JAbsent, JNumber, JString(BadLogin)} \cup {JString(l) : l \in Logins}
PasswordValues == {JAbsent, JNumber, JString(BadPassword), JString(GoodPassword)}
MessageIdsValues == {JAbsent, JNumber, JString("id"), JArray(<<>>), JArray(<<JString("id")>>), JArray(<<JNumber>>)}

\* what the other operations answer; handleLogin and handleSendMessage convert
\* their fields with get<std::string> outside any try block
OperationAnswers(op) ==
    IF op = "handleNotFound" \/ op = "notFound" THEN {Answer(404, "ENDPOINT_NOT_FOUND")}
    ELSE IF op = "handleLogin" THEN {Answer(200, ""), Answer(401, "INVALID_CREDENTIALS"), Terminate}
    ELSE IF op = "handleSendMessage" THEN {Answer(201, ""), Answer(401, "INVALID_TOKEN"), Terminate}
    ELSE IF op = "handleRefresh" THEN {Answer(200, ""), Answer(401, "INVALID_REFRESH_TOKEN")}
    ELSE {Answer(200, ""), Answer(401, "INVALID_TOKEN")}

NoCall == [method |-> "", target |-> Target(<<>>, FALSE, FALSE), op |-> "", answer |-> Answer(0, "")]

NewWorker == [pc |-> "idle", login |-> "", fault |-> FALSE, calls |-> <<>>]

\* a running process with an empty users table
NewHandlers ==
    [alive |-> TRUE, users |-> {}, work |-> [w \in Workers |-> NewWorker], last |-> NoCall]

\* a handler has returned res (or has thrown out of a noexcept function)
Returned(h, w, m, t, op, res) ==
    [h EXCEPT !.alive = res.kind # "terminate",
              !.last = [method |-> m, target |-> t, op |-> op, answer |-> res],
              !.work[w].pc = IF res.kind = "insert" THEN "insert" ELSE "idle",
              !.work[w].login = res.login]

\* the register calls a worker completes in one run
MaxRegisterCalls == 1

\* a completed register call that went as far as the users table
Completed(h, w, res, fault) ==
    [h EXCEPT !.work[w].calls = Append(@, [login |-> h.work[w].login, status |-> res.status,
                                            code |-> res.code, fault |-> fault]),
              !.work[w].fault = FALSE]

\* the targets and bodies sent by the clients
Paths ==
    {<<>>, <<"api">>, ApiV1(<<>>), ApiV1(<<"auth">>), ApiV1(<<"auth", "unknown">>),
     ApiV1(<<"users", "unknown">>), ApiV1(<<"messages", "unknown">>), ApiV1(<<"other">>)}
        \cup AuthPaths \cup UserPaths \cup MessagePaths

Targets ==
    {Target(p, s[1], s[2]) : p \in Paths, s \in {<<FALSE, FALSE>>, <<TRUE, FALSE>>, <<FALSE, TRUE>>}}

\* the operation every request of the clients is dispatched to
Operations == [m \in Methods, t \in Targets |-> HandleRequest(m, t)]

\* worker w reads a request and runs its handler
Serve(w, m, t) ==
    /\ hnd.alive
    /\ hnd.work[w].pc = "idle"
    /\ LET op == Operations[m, t]
       IN  IF op = "handleRegister"
           THEN /\ Len(hnd.work[w].calls) < MaxRegisterCalls
                /\ \E json, valid, selectThrows \in BOOLEAN, l \in LoginValues, p \in PasswordValues :
                     LET res == HandleRegister(hnd.users, json, valid,
                                               [login |-> l, password |-> p], selectThrows)
                         h == [Returned(hnd, w, m, t, op, res) EXCEPT !.work[w].fault = selectThrows]
                     IN  hnd' = IF res.kind = "response" /\ res.status = 409
                                THEN Completed([h EXCEPT !.work[w].login = GetString(l).value],
                                               w, res, FALSE)
                                ELSE h
           ELSE IF op = "handleMarkAsRead"
           THEN \E tokenValid, json, valid, updateThrows \in BOOLEAN, ids \in MessageIdsValues :
                    hnd' = Returned(hnd, w, m, t, op,
                                    HandleMarkAsRead(tokenValid, json, valid,
                                                     [message_ids |-> ids], updateThrows))
           ELSE \E res \in OperationAnswers(op) : hnd' = Returned(hnd, w, m, t, op, res)
    /\ UNCHANGED <<now, sessVars, srvVars, poolVars, authVars, msgVars, callVars>>

\* worker w runs the try block of handleRegister
RegisterInsert(w) ==
    /\ hnd.alive
    /\ hnd.work[w].pc = "insert"
    /\ \E insertThrows \in BOOLEAN :
         LET r == InsertUser(hnd.users, hnd.work[w].login, insertThrows)
             h == [hnd EXCEPT !.users = r.users,
                              !.work[w].pc = "idle",
                              !.last.answer = r.answer]
         IN  hnd' = Completed(h, w, r.answer, insertThrows \/ hnd.work[w].fault)
    /\ UNCHANGED <<now, sessVars, srvVars, poolVars, authVars, msgVars, callVars>>

-----------------------------------------------------------------------------
(* Strings of the requests: sequences of one-character strings, so that the *)
(* sanitizer and the SQL text are computed character by character           *)

Quote == "'"
DoubleQuote == "\""
Backslash == "\\"
Space == " "

LowerLetters == <<"a", "b", "c", "d", "e", "f", "g", "h", "i", "j", "k", "l", "m", "n", "o", "p", "q", "r", "s", "t", "u", "v", "w", "x", "y", "z">>
UpperLetters == <<"A", "B", "C", "D", "E", "F", "G", "H", "I", "J", "K", "L", "M", "N", "O", "P", "Q", "R", "S", "T", "U", "V", "W", "X", "Y", "Z">>
Digits == {"0", "1", "2", "3", "4", "5", "6", "7", "8", "9"}

\* std::isalnum
IsAlnum(c) ==
    \/ \E i \in DOMAIN LowerLetters : c = LowerLetters[i] \/ c = UpperLetters[i]
    \/ c \in Digits

\* boost::to_upper_copy and boost::to_lower_copy, one character
ToUpper(c) ==
    IF \E i \in DOMAIN LowerLetters : c = LowerLetters[i]
    THEN UpperLetters[CHOOSE i \in DOMAIN LowerLetters : c = LowerLetters[i]]
    ELSE c
ToLower(c) ==
    IF \E i \in DOMAIN UpperLetters : c = UpperLetters[i]
    THEN LowerLetters[CHOOSE i \in DOMAIN UpperLetters : c = UpperLetters[i]]
    ELSE c
ToUpperCopy(s) == [i \in DOMAIN s |-> ToUpper(s[i])]
ToLowerCopy(s) == [i \in DOMAIN s |-> ToLower(s[i])]

\* std::string::find(pattern, pos) != npos at position i
FoundAt(s, pattern, i) ==
    /\ i >= 1
    /\ i + Len(pattern) - 1 <= Len(s)
    /\ \A k \in DOMAIN pattern : s[i + k - 1] = pattern[k]

\* boost::replace_all(s, <<c>>, r): every occurrence of the character c becomes r
RECURSIVE ReplaceAll(_, _, _)
ReplaceAll(s, c, r) ==
    IF s = <<>> THEN <<>>
    ELSE (IF Head(s) = c THEN r ELSE <<Head(s)>>) \o ReplaceAll(Tail(s), c, r)

\* boost::trim: leading and trailing white space removed
RECURSIVE TrimLeft(_)
TrimLeft(s) == IF s # <<>> /\ Head(s) = Space THEN TrimLeft(Tail(s)) ELSE s
RECURSIVE TrimRight(_)
TrimRight(s) ==
    IF s # <<>> /\ s[Len(s)] = Space THEN TrimRight(SubSeq(s, 1, Len(s) - 1)) ELSE s
Trim(s) == TrimRight(TrimLeft(s))

\* Validators::sqlKeywords_ and Validators::xssPatterns_
SqlKeywords == {
    <<"S", "E", "L", "E", "C", "T">>,
    <<"I", "N", "S", "E", "R", "T">>,
    <<"U", "P", "D", "A", "T", "E">>,
    <<"D", "E", "L", "E", "T", "E">>,
    <<"D", "R", "O", "P">>,
    <<"U", "N", "I", "O", "N">>,
    <<"O", "R">>,
    <<"A", "N", "D">>,
    <<"W", "H", "E", "R", "E">>,
    <<"F", "R", "O", "M">>,
    <<"T", "A", "B", "L", "E">>,
    <<"D", "A", "T", "A", "B", "A", "S", "E">>,
    <<"A", "L", "T", "E", "R">>,
    <<"C", "R", "E", "A", "T", "E">>,
    <<"E", "X", "E", "C">>,
    <<"S", "C", "R", "I", "P", "T">> }
XssPatterns == {
    <<"<", "s", "c", "r", "i", "p", "t">>,
    <<"j", "a", "v", "a", "s", "c", "r", "i", "p", "t", ":">>,
    <<"o", "n", "l", "o", "a", "d", "=">>,
    <<"o", "n", "e", "r", "r", "o", "r", "=">>,
    <<"o", "n", "c", "l", "i", "c", "k", "=">>,
    <<"e", "v", "a", "l", "(">>,
    <<"a", "l", "e", "r", "t", "(">>,
    <<"d", "o", "c", "u", "m", "e", "n", "t", ".", "c", "o", "o", "k", "i", "e">>,
    <<"<", "i", "f", "r", "a", "m", "e">> }

\* Validators::sanitizeString: the replacements in the order of the table, then trim
SanitizeString(input) ==
    LET a == ReplaceAll(input, Quote, <<Quote, Quote>>)
        b == ReplaceAll(a, DoubleQuote, <<Backslash, DoubleQuote>>)
        c == ReplaceAll(b, Backslash, <<Backslash, Backslash>>)
        d == ReplaceAll(ReplaceAll(ReplaceAll(c, "\n", <<Space>>), "\r", <<Space>>), "\t", <<Space>>)
    IN  Trim(d)

\* Validators::isSQLInjection: a keyword between word boundaries, any case
IsWordBoundary(c) == ~IsAlnum(c) /\ c # "_"
IsSQLInjection(input) ==
    LET upperInput == ToUpperCopy(input)
    IN  \E keyword \in SqlKeywords, pos \in DOMAIN upperInput :
            /\ FoundAt(upperInput, keyword, pos)
            /\ pos = 1 \/ IsWordBoundary(upperInput[pos - 1])
            /\ LET endPos == pos + Len(keyword)
               IN  endPos > Len(upperInput) \/ IsWordBoundary(upperInput[endPos])

\* Validators::isXSS: a pattern anywhere, any case
IsXSS(input) ==
    LET lowerInput == ToLowerCopy(input)
    IN  \E pattern \in XssPatterns, pos \in DOMAIN lowerInput : FoundAt(lowerInput, pattern, pos)

\* SecurityUtils::sanitizeUserInput: the empty string for dangerous content
SanitizeUserInput(input) ==
    IF input = <<>> THEN input
    ELSE LET sanitized == SanitizeString(input)
         IN  IF sanitized = <<>> THEN sanitized
             ELSE IF IsSQLInjection(sanitized) \/ IsXSS(sanitized) THEN <<>>
             ELSE sanitized

\* Validators::isMessageLengthValid
IsMessageLengthValid(message, maxLength) == message # <<>> /\ Len(message) <= maxLength

-----------------------------------------------------------------------------
(* The SQL text the handlers build by concatenation, and what the database  *)
(* server makes of it.  A text is a sequence whose elements are the fixed   *)
(* fragments of the code and the characters of the request's strings        *)

\* the fixed fragments of the statements
SqlFragments ==
    {"UPDATE messages SET is_read = TRUE WHERE", "message_id", "IN", "(", ")", ",",
     "AND", "OR", "TRUE", "to_user_id", "="}

\* "'" + s + "'": the string is copied as it is
SqlString(s) == <<Quote>> \o s \o <<Quote>>

\* the loop of markMessagesAsRead: the ids quoted and separated by commas
RECURSIVE JoinIds(_)
JoinIds(messageIds) ==
    IF messageIds = <<>> THEN <<>>
    ELSE SqlString(Head(messageIds))
            \o (IF Len(messageIds) > 1 THEN <<",">> ELSE <<>>) \o JoinIds(Tail(messageIds))

\* the statement of MessageHandlers::markMessagesAsRead
MarkMessagesAsReadSql(messageIds, userId) ==
    <<"UPDATE messages SET is_read = TRUE WHERE", "message_id", "IN", "(">>
        \o JoinIds(messageIds) \o <<")", "AND", "to_user_id", "=">> \o SqlString(userId)

\* the server reads a string constant: '' is a quote, the next single quote ends it
\* (standard_conforming_strings: a backslash is an ordinary character)
RECURSIVE ReadLiteral(_, _)
ReadLiteral(s, acc) ==
    IF s = <<>> THEN [closed |-> FALSE, value |-> acc, rest |-> <<>>]
    ELSE IF Head(s) # Quote THEN ReadLiteral(Tail(s), Append(acc, Head(s)))
    ELSE IF Len(s) >= 2 /\ s[2] = Quote THEN ReadLiteral(Tail(Tail(s)), Append(acc, Quote))
    ELSE [closed |-> TRUE, value |-> acc, rest |-> Tail(s)]

\* the characters of a word; a word written in the request is a key word or a name
IsWordChar(c) == IsAlnum(c) \/ c = "_"
RECURSIVE ReadWord(_, _)
ReadWord(s, acc) ==
    IF s # <<>> /\ IsWordChar(Head(s)) THEN ReadWord(Tail(s), Append(acc, ToUpper(Head(s))))
    ELSE [value |-> acc, rest |-> s]
KeyWord(w) ==
    IF w = <<"O", "R">> THEN "OR"
    ELSE IF w = <<"A", "N", "D">> THEN "AND"
    ELSE IF w = <<"T", "R", "U", "E">> THEN "TRUE"
    ELSE IF w = <<"I", "N">> THEN "IN"
    ELSE "name"

Sym(v) == [k |-> "sym", v |-> v, s |-> <<>>]
Lit(s) == [k |-> "lit", v |-> "", s |-> s]

\* the server's scanner: blanks skipped, -- starts a comment that runs to the end,
\* a quote starts a string constant
RECURSIVE Lex(_)
Lex(sql) ==
    IF sql = <<>> THEN <<>>
    ELSE LET h == Head(sql)
         IN  IF h \in SqlFragments THEN <<Sym(h)>> \o Lex(Tail(sql))
             ELSE IF h = Space THEN Lex(Tail(sql))
             ELSE IF h = "-" /\ Len(sql) >= 2 /\ sql[2] = "-" THEN <<>>
             ELSE IF h = Quote
             THEN LET r == ReadLiteral(Tail(sql), <<>>)
                  IN  IF r.closed THEN <<Lit(r.value)>> \o Lex(r.rest) ELSE <<Sym("unterminated")>>
             ELSE IF IsWordChar(h)
             THEN LET w == ReadWord(sql, <<>>)
                  IN  <<Sym(KeyWord(w.value))>> \o Lex(w.rest)
             ELSE <<Sym(h)>> \o Lex(Tail(sql))

\* the strings the server accepts as a value of type UUID
UserIds == {<<"u", "1">>, <<"u", "2">>}
MessageIds == {<<"m", "1">>, <<"m", "2">>}
IsUuid(s) == s \in UserIds \cup MessageIds

Failed == [ok |-> FALSE, val |-> FALSE, rest |-> <<>>]
Parsed(val, rest) == [ok |-> TRUE, val |-> val, rest |-> rest]

\* '...' {, '...'} )  after  message_id IN (
RECURSIVE InList(_, _)
InList(toks, values) ==
    IF Len(toks) < 2 \/ toks[1].k # "lit" \/ ~IsUuid(toks[1].s) THEN Failed
    ELSE IF toks[2] = Sym(")")
    THEN [ok |-> TRUE, val |-> values \cup {toks[1].s}, rest |-> Tail(Tail(toks))]
    ELSE IF toks[2] = Sym(",") THEN InList(Tail(Tail(toks)), values \cup {toks[1].s})
    ELSE Failed

\* one condition on a row of messages
Factor(toks, row) ==
    IF toks = <<>> THEN Failed
    ELSE IF toks[1] = Sym("TRUE") THEN Parsed(TRUE, Tail(toks))
    ELSE IF Len(toks) >= 3 /\ toks[1] = Sym("message_id") /\ toks[2] = Sym("IN") /\ toks[3] = Sym("(")
    THEN LET l == InList(SubSeq(toks, 4, Len(toks)), {})
         IN  IF l.ok THEN Parsed(row.message_id \in l.val, l.rest) ELSE Failed
    ELSE IF Len(toks) >= 3 /\ toks[1] = Sym("to_user_id") /\ toks[2] = Sym("=")
            /\ toks[3].k = "lit" /\ IsUuid(toks[3].s)
    THEN Parsed(row.to_user_id = toks[3].s, SubSeq(toks, 4, Len(toks)))
    ELSE Failed

\* AND binds tighter than OR
RECURSIVE Term(_, _)
Term(toks, row) ==
    LET f == Factor(toks, row)
    IN  IF f.ok /\ f.rest # <<>> /\ Head(f.rest) = Sym("AND")
        THEN LET t == Term(Tail(f.rest), row)
             IN  IF t.ok THEN Parsed(f.val /\ t.val, t.rest) ELSE Failed
        ELSE f
RECURSIVE Expr(_, _)
Expr(toks, row) ==
    LET t == Term(toks, row)
    IN  IF t.ok /\ t.rest # <<>> /\ Head(t.rest) = Sym("OR")
        THEN LET e == Expr(Tail(t.rest), row)
             IN  IF e.ok THEN Parsed(t.val \/ e.val, e.rest) ELSE Failed
        ELSE t

NoRow == [message_id |-> <<>>, from_user_id |-> <<>>, to_user_id |-> <<>>,
          message_text |-> <<>>, is_read |-> FALSE]

\* the server runs UPDATE messages SET is_read = TRUE WHERE ...: an error for a text
\* it cannot read, else every row the condition selects is set
ExecUpdate(messages, sql) ==
    LET toks == Lex(sql)
        where(row) == Expr(Tail(toks), row)
    IN  IF toks = <<>> \/ Head(toks) # Sym("UPDATE messages SET is_read = TRUE WHERE")
           \/ ~where(NoRow).ok \/ where(NoRow).rest # <<>>
        THEN [threw |-> TRUE, messages |-> messages]
        ELSE [threw |-> FALSE,
              messages |-> {IF where(row).val THEN [row EXCEPT !.is_read = TRUE] ELSE row :
                                row \in messages}]

\* MessageHandlers::markMessagesAsRead: executeQuery throws for a failure of the pool
\* or of the driver and for a statement the server refuses
MarkMessagesAsRead(messages, messageIds, userId, updateThrows) ==
    IF updateThrows THEN [threw |-> TRUE, messages |-> messages]
    ELSE ExecUpdate(messages, MarkMessagesAsReadSql(messageIds, userId))

-----------------------------------------------------------------------------
(* The message handlers (MessageHandlers.cpp) and the Message model on the  *)
(* users and messages tables                                                 *)

\* the limit of isMessageLengthValid, of handleSendMessage and of the table's CHECK,
\* 4096 in the program
MaxMessageLength == 3

\* no user: the user id of a request without a valid access token, the empty result
NoUserId == <<>>

Alice == [user_id |-> <<"u", "1">>, login |-> <<"a", "l", "i", "c", "e">>]
Bob == [user_id |-> <<"u", "2">>, login |-> <<"b", "o", "b">>]

\* the process, the two tables and the last request served
NoMessageCall ==
    [op |-> "", caller |-> NoUserId, answer |-> Answer(0, ""), fault |-> FALSE,
     text |-> <<>>, sanitized |-> <<>>, limit |-> 0, store |-> FALSE]
NewMessages ==
    [alive |-> TRUE, users |-> {Alice, Bob}, messages |-> {}, last |-> NoMessageCall]

\* MessageHandlers::getUserIdByLogin: the empty string when no row is found and
\* when the query throws
GetUserIdByLogin(users, login, selectThrows) ==
    IF ~selectThrows /\ \E u \in users : u.login = login
    THEN (CHOOSE u \in users : u.login = login).user_id
    ELSE NoUserId

\* Message::setMessageText: invalid_argument for a text that is empty or too long
\* and for a text the sanitizer empties or refuses, else text_ is the sanitized text
SetMessageText(text) ==
    IF ~IsMessageLengthValid(text, MaxMessageLength) THEN [threw |-> TRUE, text_ |-> <<>>]
    ELSE LET sanitized == SanitizeUserInput(text)
         IN  [threw |-> sanitized = <<>>, text_ |-> sanitized]

\* Message::createMessage
CreateMessage(fromUserId, toUserId, text, id) ==
    LET t == SetMessageText(text)
    IN  [threw |-> t.threw,
         message |-> [message_id |-> id, from_user_id |-> fromUserId, to_user_id |-> toUserId,
                      message_text |-> t.text_, is_read |-> FALSE]]

\* the server runs the statement of Message::generateInsertSql, in which text_ stands
\* between quotes: the row is stored with the text the server reads there, unless the
\* statement cannot be read or the row breaks a constraint of the table
InsertMessage(messages, users, message, insertThrows) ==
    LET r == ReadLiteral(message.message_text \o <<Quote>>, <<>>)
        row == [message EXCEPT !.message_text = r.value]
        accepted ==
            /\ ~insertThrows
            /\ r.closed /\ r.rest = <<>>
            /\ Len(r.value) >= 1 /\ Len(r.value) <= MaxMessageLength
            /\ \E u \in users : u.user_id = row.from_user_id
            /\ \E u \in users : u.user_id = row.to_user_id
            /\ row.from_user_id # row.to_user_id
            /\ \A m \in messages : m.message_id # row.message_id
    IN  [threw |-> ~accepted, messages |-> IF accepted THEN messages \cup {row} ELSE messages]

\* MessageHandlers::handleSendMessage for the user of the token (NoUserId: no valid
\* access token)
HandleSendMessageFrom(m, fromUserId, json, valid, body, selectThrows, insertThrows, id) ==
    LET keep(a) == [answer |-> a, messages |-> m.messages, sanitized |-> <<>>, fault |-> FALSE,
                    store |-> FALSE]
        looked(a) == [keep(a) EXCEPT !.store = TRUE]
        toLogin == GetString(body.to_login).value
        messageText == GetString(body.message).value
        toUserId == GetUserIdByLogin(m.users, toLogin, selectThrows)
        newMessage == CreateMessage(fromUserId, toUserId, messageText, id)
        inserted == InsertMessage(m.messages, m.users, newMessage.message, insertThrows)
    IN  IF fromUserId = NoUserId THEN keep(Answer(401, "INVALID_TOKEN"))
        ELSE IF ~json THEN keep(Answer(400, "INVALID_CONTENT_TYPE"))
        ELSE IF ~valid THEN keep(Answer(400, "INVALID_JSON"))
        ELSE IF body.to_login.kind = "absent" \/ body.message.kind = "absent"
        THEN keep(Answer(400, "MISSING_FIELDS"))
        ELSE IF GetString(body.to_login).threw \/ GetString(body.message).threw
        THEN keep(Terminate)
        ELSE IF messageText = <<>> THEN keep(Answer(400, "EMPTY_MESSAGE"))
        ELSE IF Len(messageText) > MaxMessageLength THEN keep(Answer(400, "MESSAGE_TOO_LONG"))
        ELSE IF toUserId = NoUserId
        THEN [looked(Answer(404, "USER_NOT_FOUND")) EXCEPT !.fault = selectThrows]
        ELSE IF fromUserId = toUserId THEN looked(Answer(400, "SELF_MESSAGE"))
        ELSE IF newMessage.threw THEN looked(Answer(500, "MESSAGE_SEND_FAILED"))
        ELSE IF inserted.threw
        THEN [answer |-> Answer(500, "MESSAGE_SEND_FAILED"), messages |-> m.messages,
              sanitized |-> newMessage.message.message_text, fault |-> insertThrows,
              store |-> TRUE]
        ELSE [answer |-> Answer(201, ""), messages |-> inserted.messages,
              sanitized |-> newMessage.message.message_text, fault |-> FALSE,
              store |-> TRUE]

\* INT_MAX
IntMax == 2147483647
DigitValue(c) == CHOOSE d \in 0..9 : <<"0", "1", "2", "3", "4", "5", "6", "7", "8", "9">>[d + 1] = c

\* the digits of std::stoi, most significant first: the value, or out of range as soon
\* as it passes INT_MAX
RECURSIVE ReadDigits(_, _, _)
ReadDigits(s, acc, any) ==
    IF s = <<>> \/ Head(s) \notin Digits THEN [any |-> any, range |-> FALSE, value |-> acc]
    ELSE IF acc > (IntMax - DigitValue(Head(s))) \div 10
    THEN [any |-> TRUE, range |-> TRUE, value |-> IntMax]
    ELSE ReadDigits(Tail(s), 10 * acc + DigitValue(Head(s)), TRUE)

\* std::stoi: white space skipped, a sign, then digits; what follows the digits is
\* ignored; invalid_argument without a digit, out_of_range beyond int
Stoi(str) ==
    LET s == TrimLeft(str)
        negative == s # <<>> /\ Head(s) = "-"
        signed == s # <<>> /\ Head(s) \in {"-", "+"}
        d == ReadDigits(IF signed THEN Tail(s) ELSE s, 0, FALSE)
    IN  IF ~d.any THEN [threw |-> "invalid_argument", value |-> 0]
        ELSE IF d.range THEN [threw |-> "out_of_range", value |-> 0]
        ELSE [threw |-> "", value |-> IF negative THEN 0 - d.value ELSE d.value]

\* IHandler::stringToInt, noexcept: only invalid_argument is caught
StringToInt(str, defaultValue) ==
    LET r == Stoi(str)
    IN  IF r.threw = "invalid_argument" THEN [terminated |-> FALSE, value |-> defaultValue]
        ELSE IF r.threw = "out_of_range" THEN [terminated |-> TRUE, value |-> 0]
        ELSE [terminated |-> FALSE, value |-> r.value]

Min(a, b) == IF a < b THEN a ELSE b
Max(a, b) == IF a > b THEN a ELSE b

LIMIT_DEFAULT == 50
NoParameter == <<"absent">>

\* MessageHandlers::handleGetMessages: the limit of the query string, then the rows
\* of the caller
HandleGetMessages(userId, limitValue, selectThrows) ==
    LET parsed == StringToInt(limitValue, LIMIT_DEFAULT)
        limit == IF limitValue = NoParameter THEN LIMIT_DEFAULT
                 ELSE Min(200, Max(1, parsed.value))
    IN  IF userId = NoUserId
        THEN [answer |-> Answer(401, "INVALID_TOKEN"), limit |-> 0, fault |-> FALSE]
        ELSE IF limitValue # NoParameter /\ parsed.terminated
        THEN [answer |-> Terminate, limit |-> 0, fault |-> FALSE]
        ELSE IF selectThrows
        THEN [answer |-> Answer(500, "GET_MESSAGES_FAILED"), limit |-> limit, fault |-> TRUE]
        ELSE [answer |-> Answer(200, ""), limit |-> limit, fault |-> FALSE]

\* the strings of the requests
RECURSIVE Repeat(_, _)
Repeat(c, n) == IF n = 0 THEN <<>> ELSE <<c>> \o Repeat(c, n - 1)

MessageTexts ==
    {<<>>, <<"h", "i">>, <<Space>>, <<"o", "r">>, <<"h", Space, Space, Space>>,
     Repeat("h", MaxMessageLength), Repeat("h", MaxMessageLength + 1),
     Repeat(Quote, MaxMessageLength), Repeat(Backslash, MaxMessageLength)}
MessageValues == {JAbsent, JNumber} \cup {JString(s) : s \in MessageTexts}
ToLoginValues == {JAbsent, JString(Alice.login), JString(Bob.login), JString(<<"e", "v", "e">>)}

\* a message id followed by text that closes the list, adds a condition and turns
\* the rest of the statement into a comment
Injection == <<"m", "1", Quote, ")", Space, "O", "R", Space, "T", "R", "U", "E", Space, "-", "-">>
MessageIdLists ==
    {JAbsent, JArray(<<>>), JArray(<<JNumber>>), JArray(<<JString(<<"x">>)>>),
     JArray(<<JString(Injection)>>)}
        \cup {JArray(<<JString(a)>>) : a \in MessageIds}
        \cup {JArray(<<JString(<<"m", "1">>), JString(<<"m", "2">>)>>)}

LimitValues ==
    {NoParameter, <<>>, <<"a", "b", "c">>, <<"0">>, <<"-", "5">>, <<"7">>, <<"2", "0", "0">>,
     <<"2", "0", "1">>, <<"1", "2", "a">>, Repeat("9", 11)}

Callers == UserIds \cup {NoUserId}

\* what is wrong with a request or with the store while it is served: the content
\* type, the JSON text, the query that looks a row up, the statement that writes
RequestFaults == {"none", "content-type", "json", "select", "store"}

\* the request has been served: the process ends when the handler threw out of a
\* noexcept function
Served(op, caller, r, messages, text) ==
    [msg EXCEPT !.alive = r.answer.kind # "terminate",
                !.messages = messages,
                !.last = [op |-> op, caller |-> caller, answer |-> r.answer, fault |-> r.fault,
                          text |-> text, sanitized |-> r.sanitized, limit |-> r.limit,
                          store |-> r.store]]

\* POST /api/v1/messages/send; the id is the UUID of UUIDUtils::generateUUID
Send(fromUserId, values, ids) ==
    /\ msg.alive
    /\ \E fault \in RequestFaults, to \in ToLoginValues, message \in values,
          id \in {a \in ids : \A m \in msg.messages : m.message_id # a} :
         LET r == HandleSendMessageFrom(msg, fromUserId, fault # "content-type",
                                        fault # "json", [to_login |-> to, message |-> message],
                                        fault = "select", fault = "store", id)
         IN  msg' = Served("handleSendMessage", fromUserId,
                           [answer |-> r.answer, fault |-> r.fault, sanitized |-> r.sanitized,
                            limit |-> 0, store |-> r.store],
                           r.messages, IF message.kind = "string" THEN message.s ELSE <<>>)
    /\ UNCHANGED <<now, sessVars, srvVars, poolVars, authVars, hndVars, callVars>>

\* POST /api/v1/messages/read
MarkAsRead(userId) ==
    /\ msg.alive
    /\ \E fault \in RequestFaults \ {"select"}, ids \in MessageIdLists :
         LET body == [message_ids |-> ids]
             json == fault # "content-type"
             valid == fault # "json"
             updateThrows == fault = "store"
             reached == HandleMarkAsRead(userId # NoUserId, json, valid, body, FALSE)
                            = Answer(200, "")
             messageIds == [i \in DOMAIN ids.items |-> ids.items[i].s]
             u == IF reached
                  THEN MarkMessagesAsRead(msg.messages, messageIds, userId, updateThrows)
                  ELSE [threw |-> FALSE, messages |-> msg.messages]
             answer == HandleMarkAsRead(userId # NoUserId, json, valid, body, u.threw)
         IN  msg' = Served("handleMarkAsRead", userId,
                           [answer |-> answer, fault |-> reached /\ updateThrows,
                            sanitized |-> <<>>, limit |-> 0, store |-> reached],
                           u.messages, messageIds)
    /\ UNCHANGED <<now, sessVars, srvVars, poolVars, authVars, hndVars, callVars>>

\* GET /api/v1/messages?limit=...
GetMessages(userId) ==
    /\ msg.alive
    /\ \E limitValue \in LimitValues, selectThrows \in BOOLEAN :
         LET r == HandleGetMessages(userId, limitValue, selectThrows)
         IN  msg' = Served("handleGetMessages", userId,
                           [answer |-> r.answer, fault |-> r.fault, sanitized |-> <<>>,
                            limit |-> r.limit, store |-> r.answer.status \in {200, 500}],
                           msg.messages, limitValue)
    /\ UNCHANGED <<now, sessVars, srvVars, poolVars, authVars, hndVars, callVars>>

\* DELETE /api/v1/auth/account: the row of the user goes, and with it (ON DELETE
\* CASCADE) the messages the user sent or received
DeleteUser(userId) ==
    /\ msg.alive
    /\ \E deleteThrows \in BOOLEAN :
         LET answer == IF userId = NoUserId THEN Answer(401, "INVALID_TOKEN")
                       ELSE IF deleteThrows THEN Answer(500, "ACCOUNT_DELETION_FAILED")
                       ELSE Answer(200, "")
             deleted == answer.status = 200
             m == [msg EXCEPT !.users = IF deleted THEN {u \in @ : u.user_id # userId} ELSE @]
         IN  msg' = [Served("handleDeleteAccount", userId,
                            [answer |-> answer, fault |-> userId # NoUserId /\ deleteThrows,
                             sanitized |-> <<>>, limit |-> 0, store |-> userId # NoUserId],
                            IF deleted
                            THEN {r \in msg.messages :
                                      r.from_user_id # userId /\ r.to_user_id # userId}
                            ELSE msg.messages, <<>>)
                     EXCEPT !.users = m.users]
    /\ UNCHANGED <<now, sessVars, srvVars, poolVars, authVars, hndVars, callVars>>

-----------------------------------------------------------------------------
\* no utility function has been called yet
NoUtilityCall == [fn |-> "none", args |-> <<>>, result |-> <<>>]

(* The login response for a configured access token lifetime *)

\* jwt.access_token_expiry_minutes: values the constructor of JWTManager accepts
\* (MIN_ACCESS_TOKEN_EXPIRY, the documented default, others, MAX_ACCESS_TOKEN_EXPIRY)
AccessTokenExpiryMinutes == {1, 15, 16, 60, 525600}

\* JWTManager::JWTManager with the configured lifetime
JWTManager(accessTokenExpiryMinutes) ==
    [fn |-> "JWTManager", args |-> <<accessTokenExpiryMinutes>>, result |-> <<>>]

\* JWTManager::getAccessTokenExpiry at time t, in seconds
GetAccessTokenExpiry(accessTokenExpiryMinutes, t) == t + 60 * accessTokenExpiryMinutes

LoginFaults == {"none", "content-type", "json", "fields", "credentials", "store"}

\* AuthHandlers::handleLogin at time t: the status, the expires_in of the response
\* data and the iat and exp of the access token in it
HandleLoginResponse(accessTokenExpiryMinutes, t, fault) ==
    LET error(status, code) ==
            [status |-> status, code |-> code, expires_in |-> 0, iat |-> 0, exp |-> 0]
    IN  IF fault = "content-type" THEN error(400, "INVALID_CONTENT_TYPE")
        ELSE IF fault = "json" THEN error(400, "INVALID_JSON")
        ELSE IF fault = "fields" THEN error(400, "MISSING_FIELDS")
        ELSE IF fault = "credentials" THEN error(401, "INVALID_CREDENTIALS")
        ELSE IF fault = "store" THEN error(500, "LOGIN_FAILED")
        ELSE [status |-> 200, code |-> "", expires_in |-> 900, iat |-> t,
              exp |-> GetAccessTokenExpiry(accessTokenExpiryMinutes, t)]

(* The router with any handlers registered *)

\* a router without handlers: args[1] holds handlers_
NewRouter == [fn |-> "Router", args |-> <<<<>>>>, result |-> <<>>]

RouterHandlers == {"AuthHandlers", "UserHandlers"}

\* the paths given to registerHandler: the root, a base path, a path with a
\* trailing slash and a path below it
RouterPaths ==
    {<<"/">>, PathString(<<"api", "v1">>), PathString(<<"api", "v1", "users">>) \o <<"/">>,
     PathString(<<"api", "v1", "users", "search">>)}

\* the targets of the requests
RouterTargets ==
    {<<>>, <<"/">>, <<"?", "x">>, PathString(<<"other">>), PathString(<<"api">>),
     PathString(<<"api", "v1">>), PathString(<<"api", "v1">>) \o <<"X">>,
     PathString(<<"api", "v1", "other">>),
     PathString(<<"api", "v1", "users">>),
     PathString(<<"api", "v1", "users">>) \o <<"/">>,
     PathString(<<"api", "v1", "users">>) \o <<"/", "/">>,
     PathString(<<"api", "v1", "users">>) \o <<"?", "x">>,
     Tail(PathString(<<"api", "v1", "users">>)),
     <<"/">> \o PathString(<<"api", "v1", "users">>),
     PathString(<<"api", "v1", "usersX">>),
     PathString(<<"api", "v1", "usersX", "5">>),
     PathString(<<"api", "v1", "users", "5">>),
     PathString(<<"api", "v1", "users", "search">>),
     PathString(<<"api", "v1", "users", "search", "5">>)}

\* Router::registerHandler(path, handler)
RegisterHandlerCall ==
    /\ call.fn \in {"Router", "registerHandler", "findHandler"}
    /\ \E path \in RouterPaths, handler \in RouterHandlers :
         call' = [fn |-> "registerHandler",
                  args |-> <<RegisterHandler(call.args[1], path, handler), path>>,
                  result |-> <<>>]
    /\ UNCHANGED <<now, sessVars, srvVars, poolVars, authVars, hndVars, msgVars, mtx>>

\* Router::findHandler(request) for a request with the target
FindHandlerCall ==
    /\ call.fn \in {"Router", "registerHandler", "findHandler"}
    /\ \E target \in RouterTargets :
         \E handler \in FindHandler(call.args[1], target) :
             call' = [fn |-> "findHandler", args |-> <<call.args[1], target>>,
                      result |-> handler]
    /\ UNCHANGED <<now, sessVars, srvVars, poolVars, authVars, hndVars, msgVars, mtx>>

\* POST /api/v1/auth/login on a server constructed with the lifetime of call.args
LoginCall ==
    /\ call.fn \in {"JWTManager", "handleLogin"}
    /\ \E fault \in LoginFaults :
         call' = [fn |-> "handleLogin", args |-> call.args,
                  result |-> HandleLoginResponse(call.args[1], now, fault)]
    /\ UNCHANGED <<now, sessVars, srvVars, poolVars, authVars, hndVars, msgVars, mtx>>

-----------------------------------------------------------------------------
(* The mutexes of Router, JWTManager and DatabaseManager *)

\* Router::mutex_, JWTManager::blacklistMutex_, DatabaseManager::poolMutex_
Mutexes == {"router", "blacklist", "pool"}

NoOwner == "none"

Lock(m) == [do |-> "lock", m |-> m]
Unlock(m) == [do |-> "unlock", m |-> m]

\* Router::findHandler: the lookup under mutex_; the handler is returned and
\* the lock_guard destroyed before the caller uses it
FindHandlerSteps == <<Lock("router"), Unlock("router")>>

\* JWTManager::isTokenBlacklisted, called by verifyAndDecode
IsTokenBlacklistedSteps == <<Lock("blacklist"), Unlock("blacklist")>>

\* JWTManager::addTokenToBlacklist
AddTokenToBlacklistSteps == <<Lock("blacklist"), Unlock("blacklist")>>

\* DatabaseManager::acquireConnection: wait_for and the pop under poolMutex_
AcquireConnectionSteps == <<Lock("pool"), [do |-> "take", m |-> "pool"], Unlock("pool")>>

\* DatabaseManager::releaseConnection and handleConnectionError: the emplace
\* under poolMutex_
ReleaseConnectionSteps == <<Lock("pool"), [do |-> "put", m |-> "pool"], Unlock("pool")>>

\* DatabaseManager::executeQuery: the query runs between acquire and release
ExecuteQuerySteps == AcquireConnectionSteps \o ReleaseConnectionSteps

RequestKinds == {"login", "messages", "logout"}

\* IHandler::handleRequest for a login, for a route that verifies the access
\* token and uses the store, and for a logout
HandleRequestSteps(kind) ==
    CASE kind = "login" -> ExecuteQuerySteps
      [] kind = "messages" -> IsTokenBlacklistedSteps \o ExecuteQuerySteps
      [] kind = "logout" ->
            IsTokenBlacklistedSteps \o AddTokenToBlacklistSteps \o ExecuteQuerySteps

\* a dispatch that calls the handler with the mutex of the router held
OnReadStepsLocked(kind) ==
    <<Lock("router")>> \o HandleRequestSteps(kind) \o <<Unlock("router")>>

\* Session::onRead: findHandler, then handleRequest of the handler found
OnReadSteps(kind) == FindHandlerSteps \o HandleRequestSteps(kind)

NewMutexWorker == [pc |-> "idle", todo |-> <<>>]

\* no mutex is locked, the pool holds its connections, the workers are idle
NewMutexes ==
    [owner |-> [m \in Mutexes |-> NoOwner], pooled |-> MaxConnections,
     work |-> [w \in Workers |-> NewMutexWorker]]

\* the step worker w is about to take
NextStep(x, w) ==
    IF x.work[w].todo = <<>> THEN [do |-> "none", m |-> ""] ELSE Head(x.work[w].todo)

\* the mutexes worker w holds
HeldBy(x, w) == {m \in Mutexes : x.owner[m] = w}

\* a request arrives at worker w
BeginRequest(w) ==
    /\ mtx.work[w].pc = "idle" /\ mtx.work[w].todo = <<>>
    /\ \E kind \in RequestKinds :
          mtx' = [mtx EXCEPT !.work[w] = [pc |-> "running", todo |-> OnReadSteps(kind)]]
    /\ UNCHANGED <<now, sessVars, srvVars, poolVars, authVars, hndVars, msgVars, call>>

\* std::lock_guard / std::unique_lock constructor: blocks while the mutex is owned
LockMutex(w) ==
    /\ mtx.work[w].pc = "running"
    /\ NextStep(mtx, w).do = "lock"
    /\ mtx.owner[NextStep(mtx, w).m] = NoOwner
    /\ mtx' = [mtx EXCEPT !.owner[NextStep(mtx, w).m] = w, !.work[w].todo = Tail(@)]
    /\ UNCHANGED <<now, sessVars, srvVars, poolVars, authVars, hndVars, msgVars, call>>

\* the destructor of the lock; after the last step the request is answered
UnlockMutex(w) ==
    /\ mtx.work[w].pc = "running"
    /\ NextStep(mtx, w).do = "unlock"
    /\ mtx' = [mtx EXCEPT !.owner[NextStep(mtx, w).m] = NoOwner,
                          !.work[w].todo = Tail(@),
                          !.work[w].pc = IF Tail(mtx.work[w].todo) = <<>> THEN "idle" ELSE "running"]
    /\ UNCHANGED <<now, sessVars, srvVars, poolVars, authVars, hndVars, msgVars, call>>

\* wait_for in acquireConnection with poolMutex_ held: pops a connection, or
\* unlocks the mutex and blocks on poolCondition_ while the pool is empty
TakeFromPool(w) ==
    /\ mtx.work[w].pc = "running"
    /\ NextStep(mtx, w).do = "take"
    /\ mtx' = IF mtx.pooled > 0
              THEN [mtx EXCEPT !.pooled = @ - 1, !.work[w].todo = Tail(@)]
              ELSE [mtx EXCEPT !.owner["pool"] = NoOwner, !.work[w].pc = "waiting"]
    /\ UNCHANGED <<now, sessVars, srvVars, poolVars, authVars, hndVars, msgVars, call>>

\* a blocked wait_for wakes and locks poolMutex_ again to test the pool
WakeInPool(w) ==
    /\ mtx.work[w].pc = "waiting"
    /\ mtx.owner["pool"] = NoOwner
    /\ mtx' = [mtx EXCEPT !.owner["pool"] = w, !.work[w].pc = "running"]
    /\ UNCHANGED <<now, sessVars, srvVars, poolVars, authVars, hndVars, msgVars, call>>

\* wait_for returns false: acquireConnection throws, the unique_lock unlocks
\* the mutex and the handler answers 500
PoolTimeout(w) ==
    /\ mtx.work[w].pc = "waiting"
    /\ mtx.owner["pool"] = NoOwner
    /\ mtx.pooled = 0
    /\ mtx' = [mtx EXCEPT !.work[w] = NewMutexWorker]
    /\ UNCHANGED <<now, sessVars, srvVars, poolVars, authVars, hndVars, msgVars, call>>

\* connectionPool_.emplace under poolMutex_; the connection is discarded when
\* it is broken and cannot be replaced
PutToPool(w) ==
    /\ mtx.work[w].pc = "running"
    /\ NextStep(mtx, w).do = "put"
    /\ \E discarded \in BOOLEAN :
          mtx' = [mtx EXCEPT !.pooled = IF discarded THEN @ ELSE @ + 1,
                             !.work[w].todo = Tail(@)]
    /\ UNCHANGED <<now, sessVars, srvVars, poolVars, authVars, hndVars, msgVars, call>>

-----------------------------------------------------------------------------
InitPool ==
    /\ pool = NewPool
    /\ thr = [t \in Threads |-> NewThread]

InitAuth ==
    auth = NewAuth

InitHandlers ==
    /\ hnd = NewHandlers
    /\ msg = NewMessages
    /\ call = NoUtilityCall
    /\ mtx = NewMutexes

\* a constructed session on a started server
InitSession ==
    /\ now = 0
    /\ created = {"s1"}
    /\ sess = [s \in SessionIds |-> NewSession]
    /\ srv = ServerStart(NewServer)
    /\ InitPool
    /\ InitAuth
    /\ InitHandlers

NextSession ==
    \/ \E s \in SessionIds : Start(s)
    \/ \E s \in SessionIds : HandshakeDone(s)
    \/ \E s \in SessionIds : ReadDone(s)
    \/ \E s \in SessionIds : Dispatch(s)
    \/ \E s \in SessionIds : WriteDone(s)
    \/ \E s \in SessionIds : ShutdownDone(s)
    \/ \E s \in SessionIds : TimerDone(s)
    \/ Tick

SpecSession == InitSession /\ [][NextSession]_vars

\* a constructed server
InitServer ==
    /\ now = 0
    /\ created = {}
    /\ sess = [s \in SessionIds |-> NewSession]
    /\ srv = NewServer
    /\ InitPool
    /\ InitAuth
    /\ InitHandlers

NextServer ==
    \/ StartServer
    \/ \E s \in SessionIds : Accept(s)
    \/ AcceptAborted
    \/ \E s \in SessionIds : HandshakeDone(s)
    \/ \E s \in SessionIds : ReadDone(s)
    \/ \E s \in SessionIds : Dispatch(s)
    \/ \E s \in SessionIds : WriteDone(s)
    \/ \E s \in SessionIds : ShutdownDone(s)
    \/ \E s \in SessionIds : TimerDone(s)
    \/ StopNotRunning
    \/ StopListener
    \/ WaitForGracefulShutdown
    \/ ResetWork
    \/ StopIoc
    \/ Join

SpecServer == InitServer /\ [][NextServer]_vars

\* the server with a second thread that calls stop
NextStop ==
    \/ StartServer
    \/ \E s \in SessionIds : Accept(s)
    \/ AcceptAborted
    \/ StopNotRunning
    \/ StopListener
    \/ WaitForGracefulShutdown
    \/ ResetWork
    \/ StopIoc
    \/ Join
    \/ OtherStop
    \/ OtherShutdown

SpecStop == InitServer /\ [][NextStop]_vars

\* the server with the completion of an accept and the run of its handler as
\* two steps, between which Server::stop may run on the thread of main
NextAccept ==
    \/ StartServer
    \/ AcceptComplete
    \/ \E s \in SessionIds : OnAccept(s)
    \/ AcceptAborted
    \/ \E s \in SessionIds : HandshakeDone(s)
    \/ \E s \in SessionIds : ReadDone(s)
    \/ \E s \in SessionIds : Dispatch(s)
    \/ \E s \in SessionIds : WriteDone(s)
    \/ \E s \in SessionIds : ShutdownDone(s)
    \/ \E s \in SessionIds : TimerDone(s)
    \/ StopNotRunning
    \/ StopListener
    \/ WaitForGracefulShutdown
    \/ ResetWork
    \/ StopIoc
    \/ Join

SpecAccept == InitServer /\ [][NextAccept]_vars

\* threads using a constructed pool
InitPoolUse ==
    /\ now = 0
    /\ created = {}
    /\ sess = [s \in SessionIds |-> NewSession]
    /\ srv = NewServer
    /\ InitPool
    /\ InitAuth
    /\ InitHandlers

NextPool ==
    \/ \E t \in Threads : AcquireConnection(t)
    \/ \E t \in Threads : WakeUp(t)
    \/ \E t \in Threads : TimeoutThrown(t)
    \/ \E t \in Threads : ReleaseConnection(t)
    \/ \E t \in Threads : HandleConnectionError(t)
    \/ \E t \in Threads : QueryErrorThrown(t)
    \/ PoolTick

SpecPool == InitPoolUse /\ [][NextPool]_vars

\* clients of a server whose users are registered
InitAuthUse ==
    /\ now = 0
    /\ created = {}
    /\ sess = [s \in SessionIds |-> NewSession]
    /\ srv = NewServer
    /\ InitPool
    /\ InitAuth
    /\ InitHandlers

NextAuth ==
    \/ \E u \in Users : Login(u)
    \/ Refresh
    \/ Logout
    \/ ChangePassword
    \/ DeleteAccount
    \/ SendMessage
    \/ AuthTick

SpecAuth == InitAuthUse /\ [][NextAuth]_vars

\* two clients whose refresh calls are served by two worker threads
NextRefresh ==
    \/ \E u \in Users : Login(u)
    \/ \E c \in Clients : RefreshSelect(c)
    \/ \E c \in Clients : RefreshStore(c)
    \/ AuthTick

SpecRefresh == InitAuthUse /\ [][NextRefresh]_vars

\* clients of the JWTManager alone
InitJwt ==
    /\ now = 0
    /\ created = {}
    /\ sess = [s \in SessionIds |-> NewSession]
    /\ srv = NewServer
    /\ InitPool
    /\ InitAuth
    /\ InitHandlers

NextJwt ==
    \/ \E c \in Clients, u \in Users : Mint(c, u)
    \/ \E c \in Clients : Revoke(c)
    \/ AuthTick

SpecJwt == InitJwt /\ [][NextJwt]_vars

\* the same with a clock that goes on
SpecJwtLive == SpecJwt /\ WF_vars(AuthTick)

\* two workers serving register requests
InitRegister ==
    /\ now = 0
    /\ created = {}
    /\ sess = [s \in SessionIds |-> NewSession]
    /\ srv = NewServer
    /\ InitPool
    /\ InitAuth
    /\ InitHandlers

NextRegister ==
    \/ \E w \in Workers : Serve(w, "POST", Target(ApiV1(<<"auth", "register">>), FALSE, FALSE))
    \/ \E w \in Workers : RegisterInsert(w)

SpecRegister == InitRegister /\ [][NextRegister]_vars

\* one worker serving any request
InitDispatch ==
    /\ now = 0
    /\ created = {}
    /\ sess = [s \in SessionIds |-> NewSession]
    /\ srv = NewServer
    /\ InitPool
    /\ InitAuth
    /\ InitHandlers

NextDispatch ==
    \/ \E m \in Methods, t \in Targets : Serve("w1", m, t)
    \/ RegisterInsert("w1")

SpecDispatch == InitDispatch /\ [][NextDispatch]_vars

\* two users sending, listing and marking messages, and deleting their accounts
InitMessages ==
    /\ now = 0
    /\ created = {}
    /\ sess = [s \in SessionIds |-> NewSession]
    /\ srv = NewServer
    /\ InitPool
    /\ InitAuth
    /\ InitHandlers

NextMessages ==
    \/ \E u \in Callers : Send(u, {JString(<<"h", "i">>)}, MessageIds)
    \/ \E u \in Callers : MarkAsRead(u)
    \/ \E u \in Callers : DeleteUser(u)

SpecMessages == InitMessages /\ [][NextMessages]_vars

\* requests to send and to list messages, with every kind of text and of limit, until
\* one message is stored
InitSend == InitMessages

NextSend ==
    \/ \E u \in Callers : Send(u, MessageValues, {<<"m", "1">>})
    \/ \E u \in Callers : GetMessages(u)

SpecSend == InitSend /\ [][NextSend]_vars

\* requests to send and to mark as read with every kind of body
NextValidate ==
    \/ \E u \in Callers : Send(u, MessageValues, {<<"m", "1">>})
    \/ \E u \in Callers : MarkAsRead(u)

SpecValidate == InitMessages /\ [][NextValidate]_vars

\* logins on servers configured with different access token lifetimes
InitLogin ==
    /\ now = 0
    /\ created = {}
    /\ sess = [s \in SessionIds |-> NewSession]
    /\ srv = NewServer
    /\ InitPool
    /\ InitAuth
    /\ hnd = NewHandlers
    /\ msg = NewMessages
    /\ call \in {JWTManager(minutes) : minutes \in AccessTokenExpiryMinutes}
    /\ mtx = NewMutexes

NextLogin ==
    \/ LoginCall
    \/ AuthTick

SpecLogin == InitLogin /\ [][NextLogin]_vars

\* lookups in a router with any of the handlers registered
InitRouter ==
    /\ now = 0
    /\ created = {}
    /\ sess = [s \in SessionIds |-> NewSession]
    /\ srv = NewServer
    /\ InitPool
    /\ InitAuth
    /\ hnd = NewHandlers
    /\ msg = NewMessages
    /\ call = NewRouter
    /\ mtx = NewMutexes

NextRouter ==
    \/ RegisterHandlerCall
    \/ FindHandlerCall

SpecRouter == InitRouter /\ [][NextRouter]_vars

\* workers serving requests: their critical sections
NextMutex ==
    \/ \E w \in Workers : BeginRequest(w)
    \/ \E w \in Workers : LockMutex(w)
    \/ \E w \in Workers : UnlockMutex(w)
    \/ \E w \in Workers : TakeFromPool(w)
    \/ \E w \in Workers : WakeInPool(w)
    \/ \E w \in Workers : PoolTimeout(w)
    \/ \E w \in Workers : PutToPool(w)

SpecMutex == InitDispatch /\ [][NextMutex]_vars

-----------------------------------------------------------------------------
(* Claims about the session engine, checked under SpecSession *)

TimedPhases == {"HandshakeInProgress", "Reading", "Writing"}

\* C1 (as claimed): a session is never in Handshake, Reading or Writing after
\* the 30-second deadline of that phase has passed: the deadline checker has
\* moved it to Closing when the deadline was reached.
C1_DeadlineTriggersClose ==
    \A s \in created :
        sess[s].phase \in TimedPhases => now <= sess[s].deadline

\* C2 (as claimed): after an error in handshake, read, dispatch or write the
\* session is in Closing with a TLS shutdown started.
C2_AnyErrorCloses ==
    \A s \in created :
        LET r == sess[s] IN
        (r.lastEvent.op \in {"handshake", "read", "dispatch", "write"}
            /\ r.lastEvent.ec \in ErrorCodes)
        => (r.phase = "Closing" /\ r.shutdown = "started")

\* C2 (amended): a read error takes the session to Closing, which starts a TLS
\* shutdown and closes the socket when the shutdown completes, whatever its
\* result; a handshake or write error drops the session with no TLS shutdown
\* (the socket is closed when the Session is destroyed); an exception during
\* dispatch is answered (500) and the session goes on to Writing.
C2_ErrorHandling ==
    \A s \in created :
        LET r == sess[s]
            e == r.lastEvent
            failed == e.ec \in ErrorCodes
        IN  /\ (e.op = "read" /\ failed)
                => (r.phase = "Closing" /\ r.shutdown = "started"
                    /\ r.ops = {"shutdown"} /\ r.socketOpen)
            /\ (e.op \in {"handshake", "write"} /\ failed)
                => (r.phase = "Closed" /\ r.shutdown = "none" /\ r.ops = {}
                    /\ (r.socketOpen => r.timerWait # "none"))
            /\ (e.op = "dispatch" /\ failed)
                => (r.phase = "Writing" /\ r.ops = {"write"})
            /\ e.op = "shutdown"
                => (r.phase = "Closed" /\ r.shutdown = "done" /\ ~r.socketOpen)
            /\ r.phase = "Closing" => (r.shutdown = "started" /\ r.socketOpen)

\* a read failed and the session is closing
C2_Witness ==
    \E s \in created :
        /\ sess[s].lastEvent = [op |-> "read", ec |-> EcOther]
        /\ sess[s].phase = "Closing"
        /\ sess[s].shutdown = "started"

Rank(p) ==
    CASE p = "Accepted"            -> 0
      [] p = "HandshakeInProgress" -> 1
      [] p = "Reading"             -> 2
      [] p = "Dispatching"         -> 3
      [] p = "Writing"             -> 4
      [] p = "Closing"             -> 5
      [] p = "Closed"              -> 6

\* C7: a session's phase only moves to the next phase of the order Accepted,
\* HandshakeInProgress, Reading, Dispatching, Writing, back from Writing to
\* Reading, or forward out to Closing / Closed; a read starts only at the
\* completion of the handshake or of the previous response's write, and at
\* most one operation (one request) is in flight on the socket.
C7_PhaseOrder ==
    [][\A s \in created :
          LET p == sess[s].phase
              q == sess'[s].phase
              r == sess'[s]
          IN  /\ p # q =>
                   \/ Rank(q) = Rank(p) + 1
                   \/ p = "Writing" /\ q = "Reading"
                   \/ q \in {"Closing", "Closed"} /\ Rank(q) > Rank(p)
              /\ ("read" \in r.ops /\ "read" \notin sess[s].ops) =>
                   /\ p \in {"HandshakeInProgress", "Writing"}
                   /\ r.lastEvent.op \in {"handshake", "write"}
                   /\ r.lastEvent.ec = EcSuccess
                   /\ r.request = NoRequest
              /\ Cardinality(r.ops) <= 1
              /\ (r.phase = "Dispatching") => r.ops = {}
      ]_vars

\* keep-alive: the next read is outstanding after a completed write
C7_Witness ==
    \E s \in created :
        /\ sess[s].phase = "Reading"
        /\ sess[s].ops = {"read"}
        /\ sess[s].lastEvent = [op |-> "write", ec |-> EcSuccess]

\* C8 (as claimed): a session that began closing has its socket closed before
\* the 5-second shutdown deadline has passed.
C8_ClosedWithinShutdownDeadline ==
    \A s \in created :
        (sess[s].phase = "Closing" /\ sess[s].socketOpen)
            => now <= sess[s].deadline

-----------------------------------------------------------------------------
(* Claims about the shutdown of the server, checked under SpecServer *)

\* C9 (as claimed): the executor is stopped only after the sessions have
\* drained or 30 seconds have passed since the wait began, and only after the
\* work guard was dropped.
C9_NoForcedStopBeforeDrain ==
    srv.iocStopped =>
        /\ ~srv.workGuard
        /\ Drained \/ now - srv.stopStart >= GRACEFUL_SHUTDOWN_TIMEOUT

\* C10 (as claimed): once Server::stop has returned, no session that was open
\* is left with its socket open.
C10_NoSessionLeftOpen ==
    srv.stopReturned => \A s \in created : ~sess[s].socketOpen

-----------------------------------------------------------------------------
(* Claims about the connection pool, checked under SpecPool *)

Holders == {t \in Threads : thr[t].pc = "holding"}

C6_PoolSizeStaysN ==
    pool.connectionPool + Cardinality(Holders) = MaxConnections

\* the waiters that a notify_one has woken and that have not run yet
Woken == {t \in Threads : thr[t].pc = "waiting" /\ thr[t].notified}

\* the threads that a step wakes
WokenByStep == {t \in Threads : ~thr[t].notified /\ thr'[t].notified}

C40_BorrowedCountsHolders ==
    /\ pool.borrowedConnections = Cardinality(Holders)
    /\ pool.connectionPool + pool.borrowedConnections <= MaxConnections

-----------------------------------------------------------------------------
(* Claims about the token lifecycle, checked under SpecAuth *)

AuthenticatedRoutes == {"logout", "password", "account", "messages"}

\* C3 (as claimed): a call to an authenticated route that presents an access
\* token whose logout was already answered 200, while the token has not
\* expired, is answered 401/INVALID_TOKEN.
C3_LoggedOutTokenRejected ==
    LET r == auth.last
    IN  (r.route \in AuthenticatedRoutes /\ r.token.type = "access"
            /\ r.revoked /\ r.unexpired)
        => (r.status = 401 /\ r.code = "INVALID_TOKEN")

\* C4 (as claimed): a well-formed refresh call that presents an unexpired
\* refresh token whose refresh was already answered 200, and during which no
\* store call fails, is answered 401/INVALID_REFRESH_TOKEN.
C4_RotatedTokenRejected ==
    LET r == auth.last
    IN  (r.route = "refresh" /\ r.token.type = "refresh"
            /\ r.revoked /\ r.unexpired /\ r.fault = "none")
        => (r.status = 401 /\ r.code = "INVALID_REFRESH_TOKEN")


-----------------------------------------------------------------------------
(* The request handlers *)

\* C11: handling a request never throws: for every request, also one whose
\* JSON body has a required field of the wrong type, the handler returns a
\* response and the process is not terminated.
C11_HandlersNeverTerminate ==
    hnd.alive

\* the register calls that went as far as the users table with the store healthy
RegisterCalls ==
    {c \in {<<w, i>> : w \in Workers, i \in 1..MaxRegisterCalls} :
        /\ c[2] <= Len(hnd.work[c[1]].calls)
        /\ ~hnd.work[c[1]].calls[c[2]].fault}

RegisterCall(c) == hnd.work[c[1]].calls[c[2]]

\* C12: of the register calls for one login, also of calls that run
\* concurrently on different workers, exactly one is answered 201 and every
\* other one 409/LOGIN_EXISTS.
C12_SecondRegisterConflicts ==
    \A c \in RegisterCalls :
        /\ \/ RegisterCall(c).status = 201
           \/ RegisterCall(c).status = 409 /\ RegisterCall(c).code = "LOGIN_EXISTS"
        /\ \A d \in RegisterCalls \ {c} :
              RegisterCall(c).login = RegisterCall(d).login
                  => ~(RegisterCall(c).status = 201 /\ RegisterCall(d).status = 201)

\* a path that is not registered and lies under a registered one
UnknownUnderPrefix(t) ==
    /\ t.segs \notin RegisteredPaths
    /\ \E r \in RegisteredPaths : IsPrefix(r, t.segs)

\* C15: a request for an unknown path under a registered prefix is answered
\* 404/ENDPOINT_NOT_FOUND whatever its method, and reaches no real operation.
C15_UnknownPathNotFound ==
    (hnd.last.op # "" /\ UnknownUnderPrefix(hnd.last.target))
        => /\ hnd.last.op \in {"notFound", "handleNotFound"}
           /\ hnd.last.answer = Answer(404, "ENDPOINT_NOT_FOUND")


-----------------------------------------------------------------------------
(* Logout and the authenticated routes *)

\* C13: after a logout call has returned 200, the refresh row of the refresh
\* token supplied in that call is absent from the store.
C13_LogoutRemovesRefreshRow ==
    (auth.last.route = "logout" /\ auth.last.status = 200)
        => \A row \in auth.refresh_tokens : row.token_hash # Sha256(auth.last.refreshToken)

\* C14: a call to an authenticated route that does not carry an access token
\* (no token at all, or a refresh-type token) is answered 401/INVALID_TOKEN
\* whatever its body and content type are.
C14_NoAccessTokenUnauthorized ==
    LET r == auth.last
    IN  (r.route \in AuthenticatedRoutes /\ r.token.type # "access")
        => (r.status = 401 /\ r.code = "INVALID_TOKEN")


-----------------------------------------------------------------------------
(* The connection pool under failing queries and concurrent callers *)

\* C16: when a query fails, its connection is given back (or a replacement
\* is) before the call fails: the step that ends in the failure of
\* executeQuery adds one connection to the pool.
C16_FailedQueryReturnsConnection ==
    [][\A t \in Threads :
          (thr[t].pc = "holding" /\ thr'[t].pc = "failed")
              => pool'.connectionPool = pool.connectionPool + 1
      ]_vars

\* the connections in the pool
Pooled == {pool.queue[i] : i \in DOMAIN pool.queue}

\* C17: under concurrent acquire and release a connection is never owned by
\* two callers, is never both in the pool and owned by a caller, and is in the
\* pool at most once; every caller that has acquired owns a connection.
C17_ExclusiveOwnership ==
    /\ \A t \in Holders :
          /\ thr[t].conn # NoConnection
          /\ thr[t].conn \notin Pooled
          /\ \A u \in Holders \ {t} : thr[u].conn # thr[t].conn
    /\ \A i, j \in DOMAIN pool.queue : i # j => pool.queue[i] # pool.queue[j]
    /\ pool.connectionPool = Len(pool.queue)

\* two callers own connections at the same time, one of them a replacement
\* that a release had opened and put into the pool
C17_Witness ==
    \E t, u \in Holders :
        /\ t # u
        /\ thr[t].conn > MaxConnections
        /\ thr[u].conn # NoConnection

-----------------------------------------------------------------------------
(* The revocation set of the JWTManager *)

\* the tokens the clients hold (no token for a client that holds none) and
\* the tokens of the revocation set
Issued ==
    {auth.sessions[c].access : c \in Clients} \cup {auth.sessions[c].refresh : c \in Clients}
        \cup {e.token : e \in auth.blacklistedTokens}

\* C18: a token is reported revoked if and only if addTokenToBlacklist has
\* run for it and its expiry is still in the future; once the expiry has
\* passed it is reported not revoked although no sweep has removed its entry.
C18_RevokedIffAddedAndUnexpired ==
    \A tok \in Issued : IsTokenBlacklisted(tok) <=> (tok \in auth.added /\ tok.exp > now)

\* a revoked token has reached its expiry with its entry still in the map,
\* while another revoked token has not
C18_Witness ==
    \E old, new \in auth.added :
        /\ old.exp <= now /\ ~IsTokenBlacklisted(old)
        /\ \E e \in auth.blacklistedTokens : e.token = old
        /\ new.exp > now /\ IsTokenBlacklisted(new)

\* C19: the entries of the revocation set are removed once their expiry has
\* passed: again and again the set holds no expired entry.
C19_ExpiredEntriesRemoved ==
    []<>(\A e \in auth.blacklistedTokens : e.expiry > now)

\* C20: revoking a token leaves every other token's status as it was: the
\* unexpired access token of a client whose token was not revoked, and every
\* unexpired refresh token, is accepted.
C20_OtherTokensStillAccepted ==
    \A c \in Clients :
        /\ (auth.sessions[c].access # NoToken /\ ~auth.sessions[c].revoked
               /\ now <= auth.sessions[c].access.exp)
              => VerifyAndDecode(auth.sessions[c].access)
        /\ (auth.sessions[c].refresh # NoToken /\ now <= auth.sessions[c].refresh.exp)
              => VerifyAndDecode(auth.sessions[c].refresh)

-----------------------------------------------------------------------------
(* Claims about the responses of a session, checked under SpecSession *)

\* C25: after a successful write the session closes or reads on as the request's
\* keep-alive semantics say: in every step in which a write completes without error,
\* the session goes to Closing (or is already closed) when the request did not ask
\* to keep the connection (Connection: close, or HTTP/1.0 without keep-alive), and
\* to Reading otherwise.
C25_CloseFollowsKeepAlive ==
    [][\A s \in created :
          ("write" \in sess[s].ops /\ sess'[s].lastEvent = [op |-> "write", ec |-> EcSuccess])
              => IF sess[s].request.keepAlive
                 THEN sess'[s].phase = "Reading"
                 ELSE sess'[s].phase \in {"Closing", "Closed"}]_vars

\* C26: every response a session writes is JSON, carries Cache-Control: no-cache
\* and has the three CORS fields: a session that is writing has a response with the
\* JSON content type, the no-cache field and the fields of setCorsHeaders.
C26_EveryResponseHasHeaders ==
    \A s \in created :
        sess[s].phase = "Writing" =>
            ({"Content-Type: application/json", "Cache-Control: no-cache"} \cup SetCorsHeaders)
                \subseteq sess[s].fields

-----------------------------------------------------------------------------
(* Claims about the message handlers, checked under SpecMessages and SpecSend *)

\* C21: a stored message changes only by a mark-as-read of its recipient, and
\* then only is_read goes from false to true: in every step a message that is in
\* the table before and after either is the same row, or was unread, is now read
\* with its other fields as they were, and the request served was a mark-as-read
\* whose caller is the row's to_user_id.
C21_OnlyRecipientMarksRead ==
    [][\A row \in msg.messages : \A after \in msg'.messages :
          after.message_id = row.message_id =>
              \/ after = row
              \/ /\ ~row.is_read
                 /\ after = [row EXCEPT !.is_read = TRUE]
                 /\ msg'.last.op = "handleMarkAsRead"
                 /\ msg'.last.caller = row.to_user_id]_vars

\* C22: a validation failure is answered with a 4xx, never a 5xx: whenever the send
\* request served last carried a message text that Message::setMessageText refuses
\* (empty, too long, emptied by the sanitizer or refused as dangerous content), no
\* store call failed and the process is alive, the status is in 400..499.
C22_RejectedTextIsClientError ==
    (/\ msg.alive
     /\ msg.last.op = "handleSendMessage"
     /\ ~msg.last.fault
     /\ SetMessageText(msg.last.text).threw)
        => msg.last.answer.status \in 400..499

\* C23: a failure of a store call is answered 500: whenever a query or statement
\* made for the request served last threw (driver error or pool timeout), the
\* status of the answer is 500, not 401, 404 or 409 and not a success.
C23_StoreFailureIsInternalError ==
    msg.last.fault => msg.last.answer.status = 500

\* C24: send enforces the length after sanitization: when the send request served
\* last passed the checks of the token, the content type, the JSON text and the
\* fields, and its sanitized text is longer than the limit, the answer is
\* 400/MESSAGE_TOO_LONG; and when the answer is 201 (the message was stored) the
\* sanitized text has between 1 and the limit characters.
C24_LengthAfterSanitization ==
    msg.last.op = "handleSendMessage" /\ msg.alive =>
        LET sanitized == SanitizeString(msg.last.text)
            answer == msg.last.answer
        IN  /\ (/\ Len(sanitized) > MaxMessageLength
                /\ answer.code \notin {"INVALID_TOKEN", "INVALID_CONTENT_TYPE", "INVALID_JSON",
                                       "MISSING_FIELDS"})
                   => answer = Answer(400, "MESSAGE_TOO_LONG")
            /\ answer.status = 201 => Len(sanitized) \in 1..MaxMessageLength

\* C28: for every value of the limit parameter of GET /api/v1/messages (absent, not
\* a number, zero, negative, above 200, too large for an int) an authenticated
\* request is answered, the limit in effect is in 1..200, and it is 50 when the
\* parameter is absent.
C28_LimitClampedAndAnswered ==
    (msg.last.op = "handleGetMessages" /\ msg.last.caller # NoUserId) =>
        /\ msg.alive
        /\ msg.last.limit \in 1..200
        /\ msg.last.text = NoParameter => msg.last.limit = LIMIT_DEFAULT

-----------------------------------------------------------------------------
(* Claims about the login response, checked under SpecLogin *)

\* C27: expires_in of a login response is the configured access token lifetime in
\* seconds: for every successful login, expires_in = 60 * the configured minutes,
\* which is exp - iat of the access token returned.
C27_ExpiresInIsConfiguredLifetime ==
    (call.fn = "handleLogin" /\ call.result.status = 200) =>
        /\ call.result.expires_in = 60 * call.args[1]
        /\ call.result.expires_in = call.result.exp - call.result.iat

-----------------------------------------------------------------------------
(* Claims about the router, checked under SpecRouter *)

\* the path the lookup of the last findHandler call works on
LookupPath == NormalizePath(WithoutQuery(call.args[2]))

\* r and then the end of the path or a slash
BoundaryPrefix(r, path) ==
    \/ path = r
    \/ /\ Len(path) > Len(r)
       /\ SubSeq(path, 1, Len(r)) = r
       /\ path[Len(r) + 1] = "/"

\* C29: the lookup strips the query string and returns the handler of the exact
\* normalized path; else that of the base path (the first two segments) when it
\* is registered and a prefix of the path that ends at a slash or at the end of
\* the path; else that of some registered path that is such a prefix; else no
\* handler. A registered path that is a prefix of the request in the middle of a
\* segment (/api/v1/users for /api/v1/usersX) is never matched.
C29_LookupPriority ==
    call.fn = "findHandler" =>
        LET handlers == call.args[1]
            base == ExtractBasePath(LookupPath)
        IN  IF LookupPath \in DOMAIN handlers
            THEN call.result = handlers[LookupPath]
            ELSE IF base \in DOMAIN handlers /\ BoundaryPrefix(base, LookupPath)
            THEN call.result = handlers[base]
            ELSE IF \E r \in DOMAIN handlers : BoundaryPrefix(r, LookupPath)
            THEN \E r \in DOMAIN handlers :
                     BoundaryPrefix(r, LookupPath) /\ call.result = handlers[r]
            ELSE call.result = "none"

\* /api/v1/usersX was looked up with /api/v1/users registered and the base path
\* not: no handler
C29_Witness ==
    /\ call.fn = "findHandler"
    /\ call.args[2] = PathString(<<"api", "v1", "usersX">>)
    /\ PathString(<<"api", "v1", "users">>) \in DOMAIN call.args[1]
    /\ PathString(<<"api", "v1">>) \notin DOMAIN call.args[1]
    /\ call.result = "none"

\* C36: the handler a lookup returns is a function of the registered pairs of
\* path and handler and of the request path: with several registered paths that
\* are prefixes of the request up to a slash and are bound to different handlers,
\* every order of registration and of iteration gives the same handler.
C36_LookupIsFunction ==
    call.fn = "findHandler" => FindHandler(call.args[1], call.args[2]) = {call.result}

-----------------------------------------------------------------------------
(* Claims about stopping the server, checked under SpecStop *)

\* C30: stop is idempotent: a call made after another call of stop or at the
\* same time performs no second shutdown sequence (at most one gracefulShutdown
\* per start), and isRunning is false when a call of stop returns.
C30_StopIdempotent ==
    [][/\ srv'.shutdowns <= 1
       /\ (~srv.stopReturned /\ srv'.stopReturned) => ~srv'.isRunning
       /\ (srv.other # "returned" /\ srv'.other = "returned") => ~srv'.isRunning]_vars

-----------------------------------------------------------------------------
(* Claims about the order of validation and store access, checked under    *)
(* SpecValidate                                                             *)

\* the answers to a request that fails the validation of its token, content
\* type, JSON text, required fields, list of ids or message length
ValidationCodes ==
    {"INVALID_TOKEN", "INVALID_CONTENT_TYPE", "INVALID_JSON", "MISSING_FIELDS",
     "EMPTY_MESSAGE_IDS", "EMPTY_MESSAGE", "MESSAGE_TOO_LONG"}

\* C31: a request that fails the validation of its token, content type, JSON
\* text, required fields, list of ids or message length is answered without any
\* access to the store and without a change of the revocation set or of the
\* tables; a handler reaches the store only for a request of a valid token whose
\* message is neither empty nor too long and whose list of ids is not empty.
C31_ValidationBeforeStore ==
    [][/\ msg'.last.answer.code \in ValidationCodes
             => /\ ~msg'.last.store
                /\ msg'.messages = msg.messages /\ msg'.users = msg.users
                /\ auth'.blacklistedTokens = auth.blacklistedTokens
       /\ msg'.last.store
             => /\ msg'.last.caller # NoUserId
                /\ msg'.last.answer.code \notin ValidationCodes
                /\ msg'.last.text # <<>>
                /\ msg'.last.op = "handleSendMessage"
                       => Len(msg'.last.text) <= MaxMessageLength]_vars

\* a message of more than the limit was refused and one of the limit was stored; an
\* empty list of ids was refused while a message was in the table
C31_Witness ==
    /\ msg.messages # {}
    /\ \/ /\ msg.last.answer = Answer(400, "MESSAGE_TOO_LONG")
          /\ Len(msg.last.text) > MaxMessageLength
       \/ /\ msg.last.op = "handleMarkAsRead"
          /\ msg.last.answer = Answer(400, "EMPTY_MESSAGE_IDS")
          /\ msg.last.caller # NoUserId

-----------------------------------------------------------------------------
(* Claims about the rotation of refresh tokens, checked under SpecAuth *)

\* C32: after a refresh call has returned 200 with a new refresh token, the store
\* holds the row of that token, so that it can be exchanged later; also when the
\* new token is minted in the clock second in which the presented one was.
C32_NewRefreshTokenStored ==
    [][(auth' # auth /\ auth'.last.route = "refresh" /\ auth'.last.status = 200)
          => \E row \in auth'.refresh_tokens :
                 row.token_hash = Sha256(GenerateRefreshToken(auth'.last.token.user))]_vars

\* C33: a refresh token is exchanged at most once: of two refresh calls that
\* present the same refresh token and are served concurrently, at most one is
\* answered 200 with a new pair of tokens.
C33_ExchangedAtMostOnce ==
    \A c, d \in Clients :
        (c # d /\ auth.work[c].token = auth.work[d].token /\ auth.work[c].token # NoToken)
            => ~(auth.work[c].status = 200 /\ auth.work[d].status = 200)

-----------------------------------------------------------------------------
(* Claims about the accept loop of the listener, checked under SpecAccept *)

\* C34: while the listener is running, an accept is always pending: after every
\* completion of an accept, with a connection or with an error, another accept
\* is armed (an accept counts as pending from async_accept until onAccept has
\* run for its completion).
C34_AcceptAlwaysPending ==
    (srv.listening /\ srv.acceptorOpen) => (srv.acceptPending \/ srv.accepted # "none")

\* Listener::stop has returned
ListenerStopped == srv.shutdowns > 0 /\ ~srv.listening

\* C37: after Listener::stop has returned no session is created or started and
\* no accept is armed, also when the accept completed before the acceptor was
\* closed and its handler runs afterwards.
C37_NoSessionAfterStop ==
    [][ListenerStopped
          => /\ created' = created
             /\ srv'.acceptPending => srv.acceptPending]_vars

-----------------------------------------------------------------------------
(* Claims about the agreement of router and handlers, checked under SpecDispatch *)

\* the target of the last request is a registered path once the router has cut
\* its query string and normalized it
NormalizedIsRegistered(t) ==
    \E r \in RegisteredPaths : NormalizePath(WithoutQuery(TargetString(t))) = PathString(r)

\* C35: a request whose path, with the query string cut and normalized, is a
\* registered path is dispatched to the operation of that path: the handler the
\* router selects does what it does for the plain path, not 404.
C35_DispatchAgreesWithRouter ==
    (hnd.last.op # "" /\ NormalizedIsRegistered(hnd.last.target))
        => hnd.last.op = Operations[hnd.last.method, Target(hnd.last.target.segs, FALSE, FALSE)]

-----------------------------------------------------------------------------
(* Claims about the mutexes, checked under SpecMutex *)

\* worker w is blocked in the constructor of a lock
WaitsFor(w, m) ==
    /\ \/ mtx.work[w].pc = "running" /\ NextStep(mtx, w) = Lock(m)
       \/ mtx.work[w].pc = "waiting" /\ m = "pool"
    /\ mtx.owner[m] # NoOwner

\* C39: no thread locks or waits for one of the three mutexes (router,
\* revocation set, pool) while it holds another, and no thread is in the
\* blocking wait of the pool while it holds the mutex of the router or of the
\* revocation set; a thread that owns a mutex another one waits for is
\* neither blocked on a mutex nor in the wait of the pool.
C39_NoNestedLocks ==
    \A w \in Workers :
        /\ Cardinality(HeldBy(mtx, w)) <= 1
        /\ NextStep(mtx, w).do = "lock" => HeldBy(mtx, w) = {}
        /\ mtx.work[w].pc = "waiting" => HeldBy(mtx, w) = {}
        /\ \A m \in Mutexes :
              WaitsFor(w, m) =>
                  LET v == mtx.owner[m]
                  IN  /\ v # w
                      /\ mtx.work[v].pc = "running"
                      /\ NextStep(mtx, v).do # "lock"

\* a worker is blocked on the mutex of the pool, which the other worker holds,
\* while the pool is empty
C39_Witness ==
    \E w \in Workers : WaitsFor(w, "pool") /\ mtx.pooled = 0

=============================================================================
